---- MODULE Spec2Model ----
(***************************************************************************)
(* Model of the trading orchestration engine of lynx:                      *)
(*   - src/trading.py       run_wallet_cycle, run_user_trading             *)
(*   - src/handlers.py      cmd_trading_on, cmd_trading_off                *)
(*   - src/config.py        active_trading, agent_last_buy                 *)
(*   - src/database.py      get_agent_settings                             *)
(*   - src/jupiter_integration.py  jupiter_get_quote, buy/sell             *)
(*   - src/load_withdrawal.py      load_all_agents, collect_agents_to_root, *)
(*                                 withdraw_from_root                      *)
(* Every asyncio task is a record with a program counter; one action is    *)
(* the code a task runs between two awaits.  SOL amounts are held in       *)
(* lamports (SOL x 10^9).                                                  *)
(***************************************************************************)
EXTENDS Integers, Sequences, FiniteSets, TLC

(* ------------------------------ bounds --------------------------------- *)
MaxSup == 2
MaxCtrl == 2
MaxOut == 1
MaxRetriesArg == 5
MaxRetryAfter == 2
MaxDelta == 6
MaxAgents == 2
MaxRest == 2

(* --------------------------- program constants ------------------------- *)
DustFloor == 100000
PollSleep == 5
BuyFailSleep == 1
StaggerSleep == 1
DefaultRetryAfter == 5
DefaultMaxRetries == 5
MinBalance == 1000000
LoadAmount == 100000000

(* ------------------------------ universes ------------------------------ *)
Users == {"u1"}
Tokens == {"", "MINT"}
\* balances get_sol_balance returns, in lamports: 0 (also the value of a failed
\* read), one lamport short of the configured buy, and exactly it
BalanceVals == {0, DustFloor - 1, DustFloor}

Sup == 1..MaxSup
Ctrl == 1..MaxCtrl

VARIABLES
    active_trading,   \* config.active_trading : dict user -> bool
    agent_last_buy,   \* config.agent_last_buy : dict "user_agent" -> int
    agent_settings,   \* table agent_settings  : dict (user, agent) -> row
    user_settings,    \* table settings        : user -> row
    wallets,          \* table wallets         : user -> rows by wallet_index
    sup,              \* run_user_trading tasks
    ctrl,             \* run_wallet_cycle tasks
    stop_requested,   \* user -> the last command of the user was /trading_off
    q,                \* one call of jupiter_get_quote
    buy,              \* one call of buy_token_jupiter
    xfer,             \* one call of a fund-transfer operation
    swap,             \* one call of jupiter_swap
    sell,             \* one call of sell_token_jupiter
    ledger            \* the chain's account of agent wallet A, and the reads in flight

vars == <<active_trading, agent_last_buy, agent_settings, user_settings,
          wallets, sup, ctrl, stop_requested, q, buy, xfer, swap, sell, ledger>>

(* ----------------------------- dictionaries ---------------------------- *)
\* dict.get(k, default)
DictGet(d, k, default) == IF k \in DOMAIN d THEN d[k] ELSE default

\* d[k] = v
DictSet(d, k, v) == [x \in (DOMAIN d) \cup {k} |-> IF x = k THEN v ELSE d[x]]

\* f"{user_id}_{agent_name}": user ids are decimal Telegram ids, so the string
\* splits at its first underscore and determines the pair.
AgentKey(user_id, agent_name) == <<user_id, agent_name>>

\* while active_trading.get(user_id, False)
IsActive(user_id) == DictGet(active_trading, user_id, FALSE)

(* ------------------------------- settings ------------------------------ *)
DefaultAgentSettings ==
    [fixed_buy |-> 0, fixed_sell_delay |-> 0, fixed_rest_delay |-> 0,
     sell_enabled |-> TRUE]

\* the row of a configured agent: buys DustFloor lamports, holds 2s, rests 3s
FundedSettings ==
    [fixed_buy |-> DustFloor, fixed_sell_delay |-> 2, fixed_rest_delay |-> 3,
     sell_enabled |-> TRUE]

\* the agent_settings table at start: no row yet for the agent (the first read
\* inserts the defaults), or the row of a configured agent, selling or not
InitialAgentSettings ==
    {<<>>}
        \cup {[k \in {AgentKey(u, "A") : u \in Users} |->
                  [FundedSettings EXCEPT !.sell_enabled = sell_enabled]] :
              sell_enabled \in BOOLEAN}

RootWallet == [is_root |-> TRUE, is_agent |-> FALSE, agent_name |-> "", key_ok |-> TRUE]
AgentWallet(name) == [is_root |-> FALSE, is_agent |-> TRUE, agent_name |-> name, key_ok |-> TRUE]

(* -------------------------------- tasks -------------------------------- *)
NoSup == [pc |-> "unborn", user |-> "", token |-> "", ws |-> <<>>, i |-> 0, dur |-> 0]

\* ret is what the call awaited last returned: the balance, the out_amount of
\* a buy or Absent (-1) for None, 0 for the signature of a sell or Absent
NoLocals == [fixed_buy |-> 0, fixed_sell_delay |-> 0, fixed_rest_delay |-> 0,
             sell_enabled |-> TRUE, stored_amount |-> 0, dur |-> 0, ret |-> 0]

NoCtrl == [pc |-> "unborn", user |-> "", agent |-> "", token |-> ""] @@ NoLocals

\* Retry-After header: absent, a decimal number of seconds, or an HTTP-date
NoHeader == [kind |-> "none", secs |-> 0]
RetryAfterVals ==
    {NoHeader, [kind |-> "date", secs |-> 0]}
        \cup {[kind |-> "int", secs |-> n] : n \in 0..MaxRetryAfter}

\* what one GET of the quote URL produces: a transport-level failure (timeout,
\* connection error), or a response with a status, a body that parses as JSON
\* or not, a routePlan key that is missing, empty or non-empty, and a header
NoResponse == [kind |-> "none", status |-> 0, json_ok |-> FALSE,
               route |-> "missing", retry_after |-> NoHeader]
TransportFailure == [NoResponse EXCEPT !.kind = "transport"]
Responses ==
    {TransportFailure}
        \cup {[kind |-> "http", status |-> 429, json_ok |-> j, route |-> "missing",
                retry_after |-> h] : j \in BOOLEAN, h \in RetryAfterVals}
        \cup {[kind |-> "http", status |-> st, json_ok |-> j, route |-> "missing",
                retry_after |-> NoHeader] : st \in {400, 500}, j \in BOOLEAN}
        \cup {[kind |-> "http", status |-> 200, json_ok |-> FALSE, route |-> "missing",
                retry_after |-> NoHeader]}
        \cup {[kind |-> "http", status |-> 200, json_ok |-> TRUE, route |-> r,
                retry_after |-> NoHeader] : r \in {"missing", "empty", "nonempty"}}

IdleQuote == [pc |-> "idle", max_retries |-> 0, attempt |-> 0, requests |-> 0,
              delay |-> 0, result |-> "none", resp |-> NoResponse,
              only_retryable |-> TRUE]

\* a quote as buy_token_jupiter sees it: the empty dict, or a dict whose
\* outAmount is a decimal string (ok) or is missing or not a number
EmptyQuote == [empty |-> TRUE, ok |-> FALSE, n |-> 0]
BuyQuotes ==
    {EmptyQuote, [empty |-> FALSE, ok |-> FALSE, n |-> 0]}
        \cup {[empty |-> FALSE, ok |-> TRUE, n |-> n] : n \in 0..MaxOut}

\* amount_sol arguments, in half lamports (SOL x 2 x 10^9) so that the
\* truncation of int(amount_sol * 1_000_000_000) has something to cut off
\* Around the dust floor, and 0.01, 0.1 and 1 SOL.
BuyAmounts ==
    {-1, 0, 20000000, 200000000, 2000000000}
        \cup {2 * DustFloor + d : d \in (0 - MaxDelta)..MaxDelta}

IdleBuy == [pc |-> "idle", amount |-> 0, lamports |-> 0, quote |-> EmptyQuote,
            out_amount |-> 0, quotes |-> 0, swaps |-> 0, result |-> -1]

\* what the POST of the swap URL produces: a transport-level failure, a body
\* that is not JSON, a JSON object without swapTransaction, a swapTransaction
\* that is not base64 or does not deserialize, or a transaction, which carries
\* a recent blockhash or not and which the keypair can sign or not
NoPost == [kind |-> "none", blockhash |-> FALSE, signable |-> FALSE]
PostOutcomes ==
    {[NoPost EXCEPT !.kind = k] :
        k \in {"transport", "not_json", "no_tx", "bad_base64", "bad_tx"}}
        \cup {[kind |-> "tx", blockhash |-> b, signable |-> s] : b, s \in BOOLEAN}

\* get_recent_blockhash raises, or answers without or with result.value
AnchorOutcomes == {"raise", "no_value", "ok"}

\* send_raw_transaction raises or returns the signature
SendOutcomes == {"raise", "ok"}

IdleSwap == [pc |-> "idle", caller |-> "none", post |-> NoPost, anchor |-> "none",
             send |-> "none", result |-> FALSE]

\* amounts handed to sell_token_jupiter
SellAmounts == 1..(MaxOut + 1)

IdleSell == [pc |-> "idle", amount |-> 0, quote |-> EmptyQuote, quotes |-> 0,
             swaps |-> 0, result |-> FALSE]

\* wallet rows of the fund-transfer operations
NoWallet == [is_root |-> FALSE, is_agent |-> FALSE, agent_name |-> "", key_ok |-> FALSE]
AgentNames == <<"A", "B", "C", "D">>
Addresses == {"", "not-a-pubkey", "ADDR"}
SweepBalances == {0, MinBalance, 1000001, 1000002, 2000000, 10000000}

IdleXfer == [op |-> "none", pc |-> "idle", user |-> "", amount |-> 0,
             addr |-> "", root |-> NoWallet, agents |-> <<>>, i |-> 0,
             balance |-> 0, lamports |-> 0, lines |-> <<>>, msg |-> "",
             sent |-> <<>>]

\* the lamports of a wallet as the RPC node holds them, and for each
\* controller the value its get_balance request was answered with while the
\* response is on its way (NotRead when no response is under way)
NotRead == -1
NoLedger == [bal |-> 0, seen |-> [c \in Ctrl |-> NotRead]]

LivePcs == {"CheckSettings", "await_settings", "sleep_settings", "await_balance",
            "sleep_balance", "await_buy", "sleep_buyfail", "sleep_hold",
            "await_sell", "sleep_rest"}

Live(c) == ctrl[c].pc \in LivePcs

FreeCtrl == {c \in Ctrl : ctrl[c].pc = "unborn"}
FreeSup == {s \in Sup : sup[s].pc = "unborn"}
Lowest(S) == CHOOSE x \in S : \A y \in S : x <= y

(* -------------------------------- Init --------------------------------- *)
Init ==
    /\ active_trading = <<>>
    /\ agent_last_buy = <<>>
    /\ agent_settings \in InitialAgentSettings
    /\ user_settings \in [Users -> [token_address : Tokens]]
    /\ wallets = [u \in Users |-> <<RootWallet, AgentWallet("A")>>]
    /\ sup = [s \in Sup |-> NoSup]
    /\ ctrl = [c \in Ctrl |-> NoCtrl]
    /\ stop_requested = [u \in Users |-> FALSE]
    /\ q = IdleQuote
    /\ buy = IdleBuy
    /\ xfer = IdleXfer
    /\ swap = IdleSwap
    /\ sell = IdleSell
    /\ ledger = NoLedger

(* ------------------------- src/handlers.py ----------------------------- *)
\* /trading_on: replies, then asyncio.create_task(run_user_trading(user_id)).
\* The new task runs up to its first await, the read of the user's settings.
cmd_trading_on(u) ==
    /\ FreeSup # {}
    /\ sup' = [sup EXCEPT ![Lowest(FreeSup)] =
                  [NoSup EXCEPT !.pc = "await_user_settings", !.user = u]]
    /\ stop_requested' = [stop_requested EXCEPT ![u] = FALSE]
    /\ UNCHANGED <<active_trading, agent_last_buy, agent_settings, user_settings,
                   wallets, ctrl, q, buy, xfer, swap, sell, ledger>>

\* /trading_off: replies "Trading has been stopped."; the assignment
\* active_trading[user_id] = False is commented out in the handler.
cmd_trading_off(u) ==
    /\ stop_requested' = [stop_requested EXCEPT ![u] = TRUE]
    /\ UNCHANGED <<active_trading, agent_last_buy, agent_settings, user_settings,
                   wallets, sup, ctrl, q, buy, xfer, swap, sell, ledger>>

(* -------------------------- src/config.py ------------------------------ *)
\* active_trading is a module-level dict that no code under src/ assigns; the
\* start/stop layer that owns it writes active_trading[user] = b.
ExternalSetActive(u, b) ==
    /\ IsActive(u) # b
    /\ active_trading' = DictSet(active_trading, u, b)
    /\ UNCHANGED <<agent_last_buy, agent_settings, user_settings, wallets,
                   sup, ctrl, stop_requested, q, buy, xfer, swap, sell, ledger>>

(* ------------------------- src/database.py ----------------------------- *)
\* the row get_agent_settings returns
SettingsRow(u, a) == DictGet(agent_settings, AgentKey(u, a), DefaultAgentSettings)

\* get_agent_settings inserts a default row when none exists
SettingsAfterRead(u, a) ==
    IF AgentKey(u, a) \in DOMAIN agent_settings
    THEN agent_settings
    ELSE DictSet(agent_settings, AgentKey(u, a), DefaultAgentSettings)

(* -------------------- src/trading.py: run_user_trading ----------------- *)
\* indexes of the wallets the for-loop spawns a cycle for, from index i on
\* Spawnable without the key decode of lines 128-132
Spawnable_AnyKey(ws, i) == {j \in i..Len(ws) : ws[j].is_agent}

Spawnable(ws, i) == {j \in i..Len(ws) : ws[j].is_agent /\ ws[j].key_ok}

\* the for-loop from wallet i up to its next await (the sleep after a spawn),
\* or to the end of the list
SupLoop(s, ws, i, token) ==
    IF Spawnable(ws, i) = {}
    THEN /\ sup' = [sup EXCEPT ![s] = [NoSup EXCEPT !.pc = "done"]]
         /\ ctrl' = ctrl
    ELSE LET j == Lowest(Spawnable(ws, i))
             c == Lowest(FreeCtrl)
         IN /\ FreeCtrl # {}
            /\ ctrl' = [ctrl EXCEPT ![c] =
                           [NoCtrl EXCEPT !.pc = "CheckSettings", !.user = sup[s].user,
                                          !.agent = ws[j].agent_name, !.token = token]]
            /\ sup' = [sup EXCEPT ![s] =
                          [pc |-> "sleep_stagger", user |-> sup[s].user,
                           token |-> token, ws |-> ws, i |-> j + 1,
                           dur |-> StaggerSleep]]

\* SupUserSettingsReturn without the test of line 120
SupUserSettingsReturn_IgnoresToken(s) ==
    /\ sup[s].pc = "await_user_settings"
    /\ LET token_address == user_settings[sup[s].user].token_address
       IN sup' = [sup EXCEPT ![s] =
                     [sup[s] EXCEPT !.pc = "await_wallets", !.token = token_address]]
    /\ UNCHANGED <<active_trading, agent_last_buy, agent_settings, user_settings,
                   wallets, ctrl, stop_requested, q, buy, xfer, swap, sell, ledger>>

\* lines 118-125: the user's settings arrive
SupUserSettingsReturn(s) ==
    /\ sup[s].pc = "await_user_settings"
    /\ LET token_address == user_settings[sup[s].user].token_address
       IN sup' = [sup EXCEPT ![s] =
                     IF token_address = ""
                     THEN [NoSup EXCEPT !.pc = "done"]
                     ELSE [sup[s] EXCEPT !.pc = "await_wallets", !.token = token_address]]
    /\ UNCHANGED <<active_trading, agent_last_buy, agent_settings, user_settings,
                   wallets, ctrl, stop_requested, q, buy, xfer, swap, sell, ledger>>

SupWalletsReturn(s) ==
    /\ sup[s].pc = "await_wallets"
    /\ SupLoop(s, wallets[sup[s].user], 1, sup[s].token)
    /\ UNCHANGED <<active_trading, agent_last_buy, agent_settings, user_settings,
                   wallets, stop_requested, q, buy, xfer, swap, sell, ledger>>

SupWake(s) ==
    /\ sup[s].pc = "sleep_stagger"
    /\ SupLoop(s, sup[s].ws, sup[s].i, sup[s].token)
    /\ UNCHANGED <<active_trading, agent_last_buy, agent_settings, user_settings,
                   wallets, stop_requested, q, buy, xfer, swap, sell, ledger>>

(* -------------------- src/trading.py: run_wallet_cycle ----------------- *)
CtrlUnchanged == UNCHANGED <<active_trading, user_settings, wallets, sup,
                             stop_requested, q, buy, xfer, swap, sell, ledger>>

\* Bare with the token address read again from the user's settings
Bare_RereadsToken(c) ==
    [NoCtrl EXCEPT !.user = ctrl[c].user, !.agent = ctrl[c].agent,
                   !.token = user_settings[ctrl[c].user].token_address]

\* the task's identity, with every local of the loop body dropped
Bare(c) == [NoCtrl EXCEPT !.user = ctrl[c].user, !.agent = ctrl[c].agent,
                          !.token = ctrl[c].token]

\* RestDur without the floor of one second
RestDur_Raw(fixed_rest_delay) == fixed_rest_delay

\* RestDur with the test fixed_rest_delay >= 0
RestDur_ZeroKept(fixed_rest_delay) == IF fixed_rest_delay >= 0 THEN fixed_rest_delay ELSE 1

\* asyncio.sleep(fixed_rest_delay if fixed_rest_delay > 0 else 1)
RestDur(fixed_rest_delay) == IF fixed_rest_delay > 0 THEN fixed_rest_delay ELSE 1

\* the result of buy_token_jupiter: Absent for None, else the out_amount of
\* (tx_sig, out_amount); out_amount is 0 when the quote's outAmount does not parse
Absent == -1
BuyResults(fixed_buy) ==
    IF fixed_buy < DustFloor THEN {Absent} ELSE {Absent} \cup (0..MaxOut)

\* line 37: while active_trading.get(user_id, False)
CheckSettings(c) ==
    /\ ctrl[c].pc = "CheckSettings"
    /\ ctrl' = [ctrl EXCEPT ![c] =
                   IF IsActive(ctrl[c].user)
                   THEN [ctrl[c] EXCEPT !.pc = "await_settings"]
                   ELSE [NoCtrl EXCEPT !.pc = "exited"]]
    /\ UNCHANGED <<agent_last_buy, agent_settings>>
    /\ CtrlUnchanged

\* line 39: get_agent_settings raises (connection or query error); nothing in
\* run_wallet_cycle catches it and the task ends
SettingsRaise(c) ==
    /\ ctrl[c].pc = "await_settings"
    /\ ctrl' = [ctrl EXCEPT ![c] = [NoCtrl EXCEPT !.pc = "crashed"]]
    /\ UNCHANGED <<agent_last_buy, agent_settings>>
    /\ CtrlUnchanged

\* SettingsReturn with the test fixed_buy < 0
SettingsReturn_ZeroBuys(c) ==
    /\ ctrl[c].pc = "await_settings"
    /\ LET row == SettingsRow(ctrl[c].user, ctrl[c].agent)
       IN ctrl' = [ctrl EXCEPT ![c] =
                      IF row.fixed_buy < 0
                      THEN [Bare(c) EXCEPT !.pc = "sleep_settings", !.dur = PollSleep]
                      ELSE [Bare(c) EXCEPT !.pc = "await_balance",
                               !.fixed_buy = row.fixed_buy,
                               !.fixed_sell_delay = row.fixed_sell_delay,
                               !.fixed_rest_delay = row.fixed_rest_delay,
                               !.sell_enabled = row.sell_enabled]]
    /\ agent_settings' = SettingsAfterRead(ctrl[c].user, ctrl[c].agent)
    /\ UNCHANGED agent_last_buy
    /\ CtrlUnchanged

\* lines 39-56: the settings come back; fixed_buy <= 0 sleeps 5s and continues,
\* else the balance is requested
SettingsReturn(c) ==
    /\ ctrl[c].pc = "await_settings"
    /\ LET row == SettingsRow(ctrl[c].user, ctrl[c].agent)
       IN ctrl' = [ctrl EXCEPT ![c] =
                      IF row.fixed_buy <= 0
                      THEN [Bare(c) EXCEPT !.pc = "sleep_settings", !.dur = PollSleep]
                      ELSE [Bare(c) EXCEPT !.pc = "await_balance",
                               !.fixed_buy = row.fixed_buy,
                               !.fixed_sell_delay = row.fixed_sell_delay,
                               !.fixed_rest_delay = row.fixed_rest_delay,
                               !.sell_enabled = row.sell_enabled]]
    /\ agent_settings' = SettingsAfterRead(ctrl[c].user, ctrl[c].agent)
    /\ UNCHANGED agent_last_buy
    /\ CtrlUnchanged

\* BalanceReturn with the test sol_balance <= fixed_buy
BalanceReturn_EqualWaits(c) ==
    /\ ctrl[c].pc = "await_balance"
    /\ \E sol_balance \in BalanceVals :
          ctrl' = [ctrl EXCEPT ![c] =
                      IF sol_balance <= ctrl[c].fixed_buy
                      THEN [Bare(c) EXCEPT !.pc = "sleep_balance", !.dur = PollSleep,
                                           !.ret = sol_balance]
                      ELSE [ctrl[c] EXCEPT !.pc = "await_buy", !.ret = sol_balance]]
    /\ UNCHANGED <<agent_last_buy, agent_settings>>
    /\ CtrlUnchanged

\* lines 56-66: get_sol_balance returns the balance, or 0.0 when the read failed
CtrlAfterBalance(c, sol_balance) ==
    IF sol_balance < ctrl[c].fixed_buy
    THEN [Bare(c) EXCEPT !.pc = "sleep_balance", !.dur = PollSleep, !.ret = sol_balance]
    ELSE [ctrl[c] EXCEPT !.pc = "await_buy", !.ret = sol_balance]

BalanceReturn(c) ==
    /\ ctrl[c].pc = "await_balance"
    /\ \E sol_balance \in BalanceVals :
          ctrl' = [ctrl EXCEPT ![c] = CtrlAfterBalance(c, sol_balance)]
    /\ UNCHANGED <<agent_last_buy, agent_settings>>
    /\ CtrlUnchanged

\* BuyReturn with the stored amount cleared when the buy failed
BuyReturn_FailClears(c) ==
    /\ ctrl[c].pc = "await_buy"
    /\ \E buy_result \in BuyResults(ctrl[c].fixed_buy) :
          IF buy_result = Absent
          THEN /\ ctrl' = [ctrl EXCEPT ![c] =
                              [Bare(c) EXCEPT !.pc = "sleep_buyfail", !.dur = BuyFailSleep,
                                              !.ret = Absent]]
               /\ agent_last_buy' =
                      DictSet(agent_last_buy, AgentKey(ctrl[c].user, ctrl[c].agent), 0)
          ELSE /\ agent_last_buy' =
                      DictSet(agent_last_buy, AgentKey(ctrl[c].user, ctrl[c].agent), buy_result)
               /\ ctrl' = [ctrl EXCEPT ![c] =
                              IF ctrl[c].sell_enabled
                              THEN [Bare(c) EXCEPT !.pc = "sleep_hold",
                                       !.fixed_rest_delay = ctrl[c].fixed_rest_delay,
                                       !.dur = ctrl[c].fixed_sell_delay,
                                       !.ret = buy_result]
                              ELSE [Bare(c) EXCEPT !.pc = "sleep_rest",
                                       !.dur = RestDur(ctrl[c].fixed_rest_delay),
                                       !.ret = buy_result]]
    /\ UNCHANGED agent_settings
    /\ CtrlUnchanged

\* BuyReturn with the bought amount added to what was stored
BuyReturn_Accumulates(c) ==
    /\ ctrl[c].pc = "await_buy"
    /\ \E buy_result \in BuyResults(ctrl[c].fixed_buy) :
          IF buy_result = Absent
          THEN /\ ctrl' = [ctrl EXCEPT ![c] =
                              [Bare(c) EXCEPT !.pc = "sleep_buyfail", !.dur = BuyFailSleep,
                                              !.ret = Absent]]
               /\ UNCHANGED agent_last_buy
          ELSE /\ agent_last_buy' =
                      DictSet(agent_last_buy, AgentKey(ctrl[c].user, ctrl[c].agent),
                              DictGet(agent_last_buy,
                                      AgentKey(ctrl[c].user, ctrl[c].agent), 0) + buy_result)
               /\ ctrl' = [ctrl EXCEPT ![c] =
                              IF ctrl[c].sell_enabled
                              THEN [Bare(c) EXCEPT !.pc = "sleep_hold",
                                       !.fixed_rest_delay = ctrl[c].fixed_rest_delay,
                                       !.dur = ctrl[c].fixed_sell_delay,
                                       !.ret = buy_result]
                              ELSE [Bare(c) EXCEPT !.pc = "sleep_rest",
                                       !.dur = RestDur(ctrl[c].fixed_rest_delay),
                                       !.ret = buy_result]]
    /\ UNCHANGED agent_settings
    /\ CtrlUnchanged

\* BuyReturn with the hold taken whatever sell_enabled says
BuyReturn_AlwaysHolds(c) ==
    /\ ctrl[c].pc = "await_buy"
    /\ \E buy_result \in BuyResults(ctrl[c].fixed_buy) :
          IF buy_result = Absent
          THEN /\ ctrl' = [ctrl EXCEPT ![c] =
                              [Bare(c) EXCEPT !.pc = "sleep_buyfail", !.dur = BuyFailSleep,
                                              !.ret = Absent]]
               /\ UNCHANGED agent_last_buy
          ELSE /\ agent_last_buy' =
                      DictSet(agent_last_buy, AgentKey(ctrl[c].user, ctrl[c].agent), buy_result)
               /\ ctrl' = [ctrl EXCEPT ![c] =
                              [Bare(c) EXCEPT !.pc = "sleep_hold",
                                  !.fixed_rest_delay = ctrl[c].fixed_rest_delay,
                                  !.dur = ctrl[c].fixed_sell_delay,
                                  !.ret = buy_result]]
    /\ UNCHANGED agent_settings
    /\ CtrlUnchanged

\* BuyReturn with the sell started straight after the buy, the hold left out
BuyReturn_NoHold(c) ==
    /\ ctrl[c].pc = "await_buy"
    /\ \E buy_result \in BuyResults(ctrl[c].fixed_buy) :
          IF buy_result = Absent
          THEN /\ ctrl' = [ctrl EXCEPT ![c] =
                              [Bare(c) EXCEPT !.pc = "sleep_buyfail", !.dur = BuyFailSleep,
                                              !.ret = Absent]]
               /\ UNCHANGED agent_last_buy
          ELSE /\ agent_last_buy' =
                      DictSet(agent_last_buy, AgentKey(ctrl[c].user, ctrl[c].agent), buy_result)
               /\ ctrl' = [ctrl EXCEPT ![c] =
                              IF ctrl[c].sell_enabled /\ buy_result > 0
                              THEN [Bare(c) EXCEPT !.pc = "await_sell",
                                       !.fixed_rest_delay = ctrl[c].fixed_rest_delay,
                                       !.stored_amount = buy_result,
                                       !.ret = buy_result]
                              ELSE [Bare(c) EXCEPT !.pc = "sleep_rest",
                                       !.dur = RestDur(ctrl[c].fixed_rest_delay),
                                       !.ret = buy_result]]
    /\ UNCHANGED agent_settings
    /\ CtrlUnchanged

\* BuyReturn that stores the amount under the key of the user's agent "A"
BuyReturn_FirstAgentKey(c) ==
    /\ ctrl[c].pc = "await_buy"
    /\ \E buy_result \in BuyResults(ctrl[c].fixed_buy) :
          IF buy_result = Absent
          THEN /\ ctrl' = [ctrl EXCEPT ![c] =
                              [Bare(c) EXCEPT !.pc = "sleep_buyfail", !.dur = BuyFailSleep,
                                              !.ret = Absent]]
               /\ UNCHANGED agent_last_buy
          ELSE /\ agent_last_buy' =
                      DictSet(agent_last_buy, AgentKey(ctrl[c].user, "A"), buy_result)
               /\ ctrl' = [ctrl EXCEPT ![c] =
                              IF ctrl[c].sell_enabled
                              THEN [Bare(c) EXCEPT !.pc = "sleep_hold",
                                       !.fixed_rest_delay = ctrl[c].fixed_rest_delay,
                                       !.dur = ctrl[c].fixed_sell_delay,
                                       !.ret = buy_result]
                              ELSE [Bare(c) EXCEPT !.pc = "sleep_rest",
                                       !.dur = RestDur(ctrl[c].fixed_rest_delay),
                                       !.ret = buy_result]]
    /\ UNCHANGED agent_settings
    /\ CtrlUnchanged

\* lines 66-82 and 99-105: buy_token_jupiter returns
BuyReturn(c) ==
    /\ ctrl[c].pc = "await_buy"
    /\ \E buy_result \in BuyResults(ctrl[c].fixed_buy) :
          IF buy_result = Absent
          THEN /\ ctrl' = [ctrl EXCEPT ![c] =
                              [Bare(c) EXCEPT !.pc = "sleep_buyfail", !.dur = BuyFailSleep,
                                              !.ret = Absent]]
               /\ UNCHANGED agent_last_buy
          ELSE /\ agent_last_buy' =
                      DictSet(agent_last_buy, AgentKey(ctrl[c].user, ctrl[c].agent), buy_result)
               /\ ctrl' = [ctrl EXCEPT ![c] =
                              IF ctrl[c].sell_enabled
                              THEN [Bare(c) EXCEPT !.pc = "sleep_hold",
                                       !.fixed_rest_delay = ctrl[c].fixed_rest_delay,
                                       !.dur = ctrl[c].fixed_sell_delay,
                                       !.ret = buy_result]
                              ELSE [Bare(c) EXCEPT !.pc = "sleep_rest",
                                       !.dur = RestDur(ctrl[c].fixed_rest_delay),
                                       !.ret = buy_result]]
    /\ UNCHANGED agent_settings
    /\ CtrlUnchanged

\* WakeHold with the test stored_amount >= 0
WakeHold_SellsZero(c) ==
    /\ ctrl[c].pc = "sleep_hold"
    /\ LET stored_amount ==
               DictGet(agent_last_buy, AgentKey(ctrl[c].user, ctrl[c].agent), 0)
       IN ctrl' = [ctrl EXCEPT ![c] =
                      IF stored_amount >= 0
                      THEN [Bare(c) EXCEPT !.pc = "await_sell",
                               !.fixed_rest_delay = ctrl[c].fixed_rest_delay,
                               !.stored_amount = stored_amount]
                      ELSE [Bare(c) EXCEPT !.pc = "sleep_rest",
                               !.dur = RestDur(ctrl[c].fixed_rest_delay)]]
    /\ UNCHANGED <<agent_last_buy, agent_settings>>
    /\ CtrlUnchanged

\* SellReturn with the stored amount cleared whatever the sell returned
SellReturn_AlwaysClears(c) ==
    /\ ctrl[c].pc = "await_sell"
    /\ \E tx_sell \in BOOLEAN :
          /\ agent_last_buy' =
                 DictSet(agent_last_buy, AgentKey(ctrl[c].user, ctrl[c].agent), 0)
          /\ ctrl' = [ctrl EXCEPT ![c] =
                         [Bare(c) EXCEPT !.pc = "sleep_rest",
                                         !.dur = RestDur(ctrl[c].fixed_rest_delay),
                                         !.ret = IF tx_sell THEN 0 ELSE Absent]]
    /\ UNCHANGED agent_settings
    /\ CtrlUnchanged

\* SellReturn with the loop condition tested right after the sell
SellReturn_Interrupted(c) ==
    /\ ctrl[c].pc = "await_sell"
    /\ \E tx_sell \in BOOLEAN :
          /\ agent_last_buy' =
                 IF tx_sell
                 THEN DictSet(agent_last_buy, AgentKey(ctrl[c].user, ctrl[c].agent), 0)
                 ELSE agent_last_buy
          /\ ctrl' = [ctrl EXCEPT ![c] =
                         IF IsActive(ctrl[c].user)
                         THEN [Bare(c) EXCEPT !.pc = "sleep_rest",
                                              !.dur = RestDur(ctrl[c].fixed_rest_delay),
                                              !.ret = IF tx_sell THEN 0 ELSE Absent]
                         ELSE [NoCtrl EXCEPT !.pc = "exited"]]
    /\ UNCHANGED agent_settings
    /\ CtrlUnchanged

\* lines 83-85 and 95-105: the hold is over; the stored amount is read and sold
\* when positive
WakeHold(c) ==
    /\ ctrl[c].pc = "sleep_hold"
    /\ LET stored_amount ==
               DictGet(agent_last_buy, AgentKey(ctrl[c].user, ctrl[c].agent), 0)
       IN ctrl' = [ctrl EXCEPT ![c] =
                      IF stored_amount > 0
                      THEN [Bare(c) EXCEPT !.pc = "await_sell",
                               !.fixed_rest_delay = ctrl[c].fixed_rest_delay,
                               !.stored_amount = stored_amount]
                      ELSE [Bare(c) EXCEPT !.pc = "sleep_rest",
                               !.dur = RestDur(ctrl[c].fixed_rest_delay)]]
    /\ UNCHANGED <<agent_last_buy, agent_settings>>
    /\ CtrlUnchanged

\* lines 85-105: sell_token_jupiter returns a signature or None
SellReturn(c) ==
    /\ ctrl[c].pc = "await_sell"
    /\ \E tx_sell \in BOOLEAN :
          /\ agent_last_buy' =
                 IF tx_sell
                 THEN DictSet(agent_last_buy, AgentKey(ctrl[c].user, ctrl[c].agent), 0)
                 ELSE agent_last_buy
          /\ ctrl' = [ctrl EXCEPT ![c] =
                         [Bare(c) EXCEPT !.pc = "sleep_rest",
                                         !.dur = RestDur(ctrl[c].fixed_rest_delay),
                                         !.ret = IF tx_sell THEN 0 ELSE Absent]]
    /\ UNCHANGED agent_settings
    /\ CtrlUnchanged

\* lines 53-54, 62-63, 77-78, 105: the sleep is over and the loop condition is next
WakeLoop(c) ==
    /\ ctrl[c].pc \in {"sleep_settings", "sleep_balance", "sleep_buyfail", "sleep_rest"}
    /\ ctrl' = [ctrl EXCEPT ![c] = [Bare(c) EXCEPT !.pc = "CheckSettings"]]
    /\ UNCHANGED <<agent_last_buy, agent_settings>>
    /\ CtrlUnchanged

CtrlStep(c) ==
    \/ CheckSettings(c)
    \/ SettingsRaise(c)
    \/ SettingsReturn(c)
    \/ BalanceReturn(c)
    \/ BuyReturn(c)
    \/ WakeHold(c)
    \/ SellReturn(c)
    \/ WakeLoop(c)

SupStep(s) == SupUserSettingsReturn(s) \/ SupWalletsReturn(s) \/ SupWake(s)

(* ------------- src/jupiter_integration.py: jupiter_get_quote ----------- *)
QuoteUnchanged == UNCHANGED <<active_trading, agent_last_buy, agent_settings,
                              user_settings, wallets, sup, ctrl, stop_requested,
                              buy, xfer, swap, sell, ledger>>

RECURSIVE Pow2(_)
Pow2(n) == IF n = 0 THEN 1 ELSE 2 * Pow2(n - 1)

\* line 38, while attempt < max_retries: the next GET goes out, or the loop is
\* left and line 65 returns {}
QuoteLoop(st) ==
    IF st.attempt < st.max_retries
    THEN [st EXCEPT !.pc = "request", !.requests = st.requests + 1]
    ELSE [st EXCEPT !.pc = "done", !.result = "empty"]

\* lines 37-38: a call with max_retries
QuoteCall(max_retries) ==
    /\ q.pc = "idle"
    /\ q' = QuoteLoop([IdleQuote EXCEPT !.max_retries = max_retries])
    /\ QuoteUnchanged

\* does the try body raise on this outcome?  session.get fails; resp.json()
\* (line 43, before the status is looked at) rejects the body; int() rejects
\* a Retry-After that is not a number (line 46)
Raises(r) ==
    \/ r.kind = "transport"
    \/ ~r.json_ok
    \/ r.status = 429 /\ r.retry_after.kind = "date"

\* int(resp.headers.get("Retry-After", 5))
RetryAfter(r) ==
    IF r.retry_after.kind = "none" THEN DefaultRetryAfter ELSE r.retry_after.secs

\* QuoteResponse with no backoff sleep after the failure of the last attempt
QuoteResponse_NoSleepAfterLast(r) ==
    /\ q.pc = "request"
    /\ LET st == [q EXCEPT !.resp = r,
                      !.only_retryable = q.only_retryable /\
                                         (r.kind = "transport" \/ r.status = 429)]
       IN q' = IF Raises(r)
               THEN IF q.attempt + 1 < q.max_retries
                    THEN [st EXCEPT !.pc = "sleep", !.delay = Pow2(q.attempt)]
                    ELSE [st EXCEPT !.pc = "done", !.result = "empty"]
               ELSE IF r.status = 429
               THEN [st EXCEPT !.pc = "sleep", !.delay = RetryAfter(r)]
               ELSE IF r.status # 200
               THEN [st EXCEPT !.pc = "done", !.result = "empty"]
               ELSE IF r.route = "missing"
               THEN [st EXCEPT !.pc = "done", !.result = "empty"]
               ELSE [st EXCEPT !.pc = "done", !.result = "quote"]
    /\ QuoteUnchanged

\* lines 41-61: the outcome of the GET arrives
QuoteResponse(r) ==
    /\ q.pc = "request"
    /\ LET st == [q EXCEPT !.resp = r,
                      !.only_retryable = q.only_retryable /\
                                         (r.kind = "transport" \/ r.status = 429)]
       IN q' = IF Raises(r)
               THEN [st EXCEPT !.pc = "sleep", !.delay = Pow2(q.attempt)]
               ELSE IF r.status = 429
               THEN [st EXCEPT !.pc = "sleep", !.delay = RetryAfter(r)]
               ELSE IF r.status # 200
               THEN [st EXCEPT !.pc = "done", !.result = "empty"]
               ELSE IF r.route = "missing"
               THEN [st EXCEPT !.pc = "done", !.result = "empty"]
               ELSE [st EXCEPT !.pc = "done", !.result = "quote"]
    /\ QuoteUnchanged

\* QuoteWake with attempt += 1 left out after a rate-limit sleep
QuoteWake_FreeRateLimit ==
    /\ q.pc = "sleep"
    /\ q' = QuoteLoop([q EXCEPT
                 !.attempt = IF q.resp.status = 429 /\ ~Raises(q.resp)
                             THEN q.attempt ELSE q.attempt + 1,
                 !.delay = 0])
    /\ QuoteUnchanged

\* lines 48-50 and 61-62: the sleep is over, attempt += 1, back to line 38
QuoteWake ==
    /\ q.pc = "sleep"
    /\ q' = QuoteLoop([q EXCEPT !.attempt = q.attempt + 1, !.delay = 0])
    /\ QuoteUnchanged

\* the caller has the result
QuoteDone ==
    /\ q.pc = "done"
    /\ q' = IdleQuote
    /\ QuoteUnchanged

NextQuote ==
    \/ \E m \in 0..MaxRetriesArg : QuoteCall(m)
    \/ \E r \in Responses : QuoteResponse(r)
    \/ QuoteWake
    \/ QuoteDone

InitQuote ==
    /\ active_trading = <<>>
    /\ agent_last_buy = <<>>
    /\ agent_settings = <<>>
    /\ user_settings = [u \in Users |-> [token_address |-> ""]]
    /\ wallets = [u \in Users |-> <<>>]
    /\ sup = [s \in Sup |-> NoSup]
    /\ ctrl = [c \in Ctrl |-> NoCtrl]
    /\ stop_requested = [u \in Users |-> FALSE]
    /\ q = IdleQuote
    /\ buy = IdleBuy
    /\ xfer = IdleXfer
    /\ swap = IdleSwap
    /\ sell = IdleSell
    /\ ledger = NoLedger

SpecQuote == InitQuote /\ [][NextQuote]_vars

(* ------------- src/jupiter_integration.py: buy_token_jupiter ----------- *)
BuyUnchanged == UNCHANGED <<active_trading, agent_last_buy, agent_settings,
                            user_settings, wallets, sup, ctrl, stop_requested,
                            q, xfer, swap, sell, ledger>>

\* line 136, int(amount_sol * 1_000_000_000) for an amount held in half
\* lamports: int() cuts the fraction off towards zero
ToLamports(amount_sol) ==
    IF amount_sol >= 0 THEN amount_sol \div 2 ELSE 0 - ((0 - amount_sol) \div 2)

\* BuyCall with the dust test written lamports <= 100_000
BuyCall_FloorInclusive(amount_sol) ==
    /\ buy.pc = "idle"
    /\ LET lamports == ToLamports(amount_sol)
           st == [IdleBuy EXCEPT !.amount = amount_sol, !.lamports = lamports]
       IN buy' = IF lamports <= DustFloor
                 THEN [st EXCEPT !.pc = "done", !.result = Absent]
                 ELSE [st EXCEPT !.pc = "await_quote", !.quotes = 1]
    /\ BuyUnchanged

\* lines 136-143: the conversion, the dust floor, then the quote is asked for
BuyCall(amount_sol) ==
    /\ buy.pc = "idle"
    /\ LET lamports == ToLamports(amount_sol)
           st == [IdleBuy EXCEPT !.amount = amount_sol, !.lamports = lamports]
       IN buy' = IF lamports < DustFloor
                 THEN [st EXCEPT !.pc = "done", !.result = Absent]
                 ELSE [st EXCEPT !.pc = "await_quote", !.quotes = 1]
    /\ BuyUnchanged

\* lines 143-159: jupiter_get_quote returns; an empty quote ends the call,
\* otherwise outAmount is parsed (0 when int() rejects it) and the swap is sent
BuyAfterQuote(quote) ==
    IF quote.empty
    THEN [buy EXCEPT !.pc = "done", !.result = Absent, !.quote = quote]
    ELSE [buy EXCEPT !.pc = "await_swap", !.quote = quote,
                     !.out_amount = IF quote.ok THEN quote.n ELSE 0,
                     !.swaps = buy.swaps + 1]

BuyQuoteReturn(quote) ==
    /\ buy.pc = "await_quote"
    /\ buy' = BuyAfterQuote(quote)
    /\ BuyUnchanged

\* lines 156-165: jupiter_swap returns a signature or None
BuyAfterSwap(tx_sig) ==
    [buy EXCEPT !.pc = "done", !.result = IF tx_sig THEN buy.out_amount ELSE Absent]

BuySwapReturn(tx_sig) ==
    /\ buy.pc = "await_swap"
    /\ buy' = BuyAfterSwap(tx_sig)
    /\ BuyUnchanged

\* the caller has the result
BuyDone ==
    /\ buy.pc = "done"
    /\ buy' = IdleBuy
    /\ BuyUnchanged

NextBuy ==
    \/ \E amount_sol \in BuyAmounts : BuyCall(amount_sol)
    \/ \E quote \in BuyQuotes : BuyQuoteReturn(quote)
    \/ \E tx_sig \in BOOLEAN : BuySwapReturn(tx_sig)
    \/ BuyDone

SpecBuy == InitQuote /\ [][NextBuy]_vars

(* ------ src/jupiter_integration.py: jupiter_swap, sell_token_jupiter --- *)
SwapUnchanged == UNCHANGED <<active_trading, agent_last_buy, agent_settings,
                             user_settings, wallets, sup, ctrl, stop_requested,
                             q, xfer, ledger>>

\* lines 85-101: the payload is built and the POST goes out
SwapStart(caller) == [IdleSwap EXCEPT !.pc = "await_post", !.caller = caller]

\* lines 117-119: tx.sign raises when the keypair cannot sign the transaction
\* or the transaction has no recent blockhash; the except of line 122 returns
\* None.  Otherwise the signed transaction is serialized and sent
SwapSign(st) ==
    IF st.post.signable /\ (st.post.blockhash \/ st.anchor = "ok")
    THEN [st EXCEPT !.pc = "await_send"]
    ELSE [st EXCEPT !.pc = "done", !.result = FALSE]

\* SwapAfterPost with the decoding of lines 110-111 outside the try
SwapAfterPost_DecodeUnguarded(r) ==
    LET st == [swap EXCEPT !.post = r]
    IN IF r.kind \in {"bad_base64", "bad_tx"}
       THEN [st EXCEPT !.pc = "raised"]
       ELSE IF r.kind # "tx"
       THEN [st EXCEPT !.pc = "done", !.result = FALSE]
       ELSE IF r.blockhash
       THEN SwapSign(st)
       ELSE [st EXCEPT !.pc = "await_anchor"]

\* lines 103-119: the POST is over.  A failed request and a body that is not
\* JSON raise and line 122 returns None; a body without swapTransaction returns
\* None at line 108; a swapTransaction that does not decode raises; a decoded
\* transaction is signed at once when it has a recent blockhash, and otherwise
\* the blockhash is asked for
SwapAfterPost(r) ==
    LET st == [swap EXCEPT !.post = r]
    IN IF r.kind # "tx"
       THEN [st EXCEPT !.pc = "done", !.result = FALSE]
       ELSE IF r.blockhash
       THEN SwapSign(st)
       ELSE [st EXCEPT !.pc = "await_anchor"]

\* lines 114-119: get_recent_blockhash is over; the blockhash is set only when
\* the answer has result.value
SwapAfterAnchor(a) ==
    LET st == [swap EXCEPT !.anchor = a]
    IN IF a = "raise"
       THEN [st EXCEPT !.pc = "done", !.result = FALSE]
       ELSE SwapSign(st)

\* lines 119-124: send_raw_transaction is over
SwapAfterSend(s) == [swap EXCEPT !.pc = "done", !.send = s, !.result = (s = "ok")]

\* lines 179-187: jupiter_get_quote returns to sell_token_jupiter
SellAfterQuote(quote) ==
    IF quote.empty
    THEN [sell EXCEPT !.pc = "done", !.result = FALSE, !.quote = quote]
    ELSE [sell EXCEPT !.pc = "await_swap", !.quote = quote, !.swaps = sell.swaps + 1]

\* lines 184-192: jupiter_swap returns to sell_token_jupiter
SellAfterSwap(tx_sig) == [sell EXCEPT !.pc = "done", !.result = tx_sig]

\* jupiter_swap goes on to its next await, or returns, and then its caller
\* runs on to its own return
SwapStep(st) ==
    /\ swap' = st
    /\ IF st.pc # "done"
       THEN UNCHANGED <<buy, sell>>
       ELSE IF st.caller = "buy"
       THEN buy' = BuyAfterSwap(st.result) /\ UNCHANGED sell
       ELSE sell' = SellAfterSwap(st.result) /\ UNCHANGED buy
    /\ SwapUnchanged

\* buy_token_jupiter is called
SwapBuyCall(amount_sol) ==
    /\ sell.pc = "idle"
    /\ swap.pc = "idle"
    /\ BuyCall(amount_sol)

\* lines 143-159: the quote of a buy arrives and, not empty, goes to jupiter_swap
SwapBuyQuoteReturn(quote) ==
    /\ buy.pc = "await_quote"
    /\ buy' = BuyAfterQuote(quote)
    /\ swap' = IF quote.empty THEN swap ELSE SwapStart("buy")
    /\ UNCHANGED sell
    /\ SwapUnchanged

\* lines 177-179: sell_token_jupiter is called and asks for the quote
SellCall(amount) ==
    /\ sell.pc = "idle"
    /\ buy.pc = "idle"
    /\ swap.pc = "idle"
    /\ sell' = [IdleSell EXCEPT !.pc = "await_quote", !.amount = amount, !.quotes = 1]
    /\ UNCHANGED <<buy, swap>>
    /\ SwapUnchanged

\* lines 179-187: the quote of a sell arrives and, not empty, goes to jupiter_swap
SellQuoteReturn(quote) ==
    /\ sell.pc = "await_quote"
    /\ sell' = SellAfterQuote(quote)
    /\ swap' = IF quote.empty THEN swap ELSE SwapStart("sell")
    /\ UNCHANGED buy
    /\ SwapUnchanged

SwapPostReturn(r) ==
    /\ swap.pc = "await_post"
    /\ SwapStep(SwapAfterPost(r))

SwapAnchorReturn(a) ==
    /\ swap.pc = "await_anchor"
    /\ SwapStep(SwapAfterAnchor(a))

SwapSendReturn(s) ==
    /\ swap.pc = "await_send"
    /\ SwapStep(SwapAfterSend(s))

\* the caller has the result
SwapDone ==
    /\ buy.pc = "done" \/ sell.pc = "done"
    /\ buy' = IdleBuy
    /\ sell' = IdleSell
    /\ swap' = IdleSwap
    /\ SwapUnchanged

NextSwap ==
    \/ \E amount_sol \in BuyAmounts : SwapBuyCall(amount_sol)
    \/ \E quote \in BuyQuotes : SwapBuyQuoteReturn(quote)
    \/ \E amount \in SellAmounts : SellCall(amount)
    \/ \E quote \in BuyQuotes : SellQuoteReturn(quote)
    \/ \E r \in PostOutcomes : SwapPostReturn(r)
    \/ \E a \in AnchorOutcomes : SwapAnchorReturn(a)
    \/ \E s \in SendOutcomes : SwapSendReturn(s)
    \/ SwapDone

SpecSwap == InitQuote /\ [][NextSwap]_vars

(* ---------------- src/load_withdrawal.py: fund transfers --------------- *)
XferUnchanged == UNCHANGED <<active_trading, agent_last_buy, agent_settings,
                             user_settings, wallets, sup, ctrl, stop_requested,
                             q, buy, swap, sell, ledger>>

\* next((w for w in wallets if w.get("is_root")), None); None is NoWallet
RootOf(ws) ==
    LET roots == {k \in 1..Len(ws) : ws[k].is_root}
    IN IF roots = {} THEN NoWallet ELSE ws[Lowest(roots)]

\* [w for w in wallets if w.get("is_agent")]
IsAgentRow(w) == w.is_agent
AgentsOf(ws) == SelectSeq(ws, IsAgentRow)

\* the wallets table of a user: no root, a root, or a root whose stored key
\* does not decode, then up to MaxAgents agents, each key decodable or not
WalletStores ==
    UNION {{roots \o [k \in 1..n |-> [AgentWallet(AgentNames[k]) EXCEPT !.key_ok = keys[k]]] :
               roots \in {<<>>, <<RootWallet>>, <<[RootWallet EXCEPT !.key_ok = FALSE]>>},
               keys \in [1..n -> BOOLEAN]} : n \in 0..MaxAgents}

\* one line of a report; balance and lamports are -1 where none was read or sent
Line(agent, outcome, balance, lamports) ==
    [agent |-> agent, outcome |-> outcome, balance |-> balance, lamports |-> lamports]

\* one call of solana_client.send_transaction
Transfer(src, dst, lamports) == [src |-> src, dst |-> dst, lamports |-> lamports]

\* line 119, int((balance - MIN_BALANCE) * 1_000_000_000) with
\* balance = lamports / 1_000_000_000 (solana_integration.py line 48), as
\* IEEE-754 double arithmetic evaluates it for the balances of SweepBalances
SweepLamports(balance) ==
    CASE balance = 0 -> -1000000
      [] balance = 1000000 -> 0
      [] balance = 1000001 -> 0
      [] balance = 1000002 -> 2
      [] balance = 2000000 -> 1000000
      [] balance = 10000000 -> 9000000

(* load_all_agents *)
\* lines 30-40: the loop head up to the await of send_transaction; the agent's
\* key is decoded at line 31, outside the try
LoadLoop(st) ==
    IF st.i > Len(st.agents)
    THEN [st EXCEPT !.pc = "done"]
    ELSE IF ~st.agents[st.i].key_ok
    THEN [st EXCEPT !.pc = "raised"]
    ELSE [st EXCEPT !.pc = "await_send", !.lamports = st.amount]

LoadCall(u, amount) ==
    /\ xfer.pc = "idle"
    /\ xfer' = [IdleXfer EXCEPT !.op = "load", !.pc = "await_wallets",
                                !.user = u, !.amount = amount]
    /\ XferUnchanged

\* LoadWalletsReturn that gives up only when both the root and the agents
\* are missing
LoadWalletsReturn_BothMissing ==
    /\ xfer.op = "load"
    /\ xfer.pc = "await_wallets"
    /\ LET root == RootOf(wallets[xfer.user])
           agents == AgentsOf(wallets[xfer.user])
           st == [xfer EXCEPT !.root = root, !.agents = agents, !.i = 1]
       IN xfer' = IF ~root.is_root /\ agents = <<>>
                  THEN [st EXCEPT !.pc = "done",
                                  !.msg = "Missing root wallet or agent wallets."]
                  ELSE LoadLoop(st)
    /\ XferUnchanged

\* lines 22-29
LoadWalletsReturn ==
    /\ xfer.op = "load"
    /\ xfer.pc = "await_wallets"
    /\ LET root == RootOf(wallets[xfer.user])
           agents == AgentsOf(wallets[xfer.user])
           st == [xfer EXCEPT !.root = root, !.agents = agents, !.i = 1]
       IN xfer' = IF ~root.is_root \/ agents = <<>>
                  THEN [st EXCEPT !.pc = "done",
                                  !.msg = "Missing root wallet or agent wallets."]
                  ELSE IF ~root.key_ok
                  THEN [st EXCEPT !.pc = "raised"]
                  ELSE LoadLoop(st)
    /\ XferUnchanged

\* lines 39-45, then the next turn of the loop
LoadSendReturn(ok) ==
    /\ xfer.op = "load"
    /\ xfer.pc = "await_send"
    /\ LET agent == xfer.agents[xfer.i].agent_name
       IN xfer' = LoadLoop([xfer EXCEPT
               !.lines = Append(@, Line(agent, IF ok THEN "Success" ELSE "Failed",
                                        -1, xfer.lamports)),
               !.sent = Append(@, Transfer("root", agent, xfer.lamports)),
               !.i = @ + 1])
    /\ XferUnchanged

(* collect_agents_to_root *)
\* lines 105-113: the loop head up to the await of get_sol_balance; a key that
\* does not decode gives a line and the loop goes on (lines 106-111)
RECURSIVE CollectLoop(_)
CollectLoop(st) ==
    IF st.i > Len(st.agents)
    THEN [st EXCEPT !.pc = "done"]
    ELSE IF ~st.agents[st.i].key_ok
    THEN CollectLoop([st EXCEPT
             !.lines = Append(@, Line(st.agents[st.i].agent_name,
                                      "Key decode error", -1, -1)),
             !.i = @ + 1])
    ELSE [st EXCEPT !.pc = "await_balance"]

CollectCall(u) ==
    /\ xfer.pc = "idle"
    /\ xfer' = [IdleXfer EXCEPT !.op = "collect", !.pc = "await_wallets", !.user = u]
    /\ XferUnchanged

\* lines 88-104
CollectWalletsReturn ==
    /\ xfer.op = "collect"
    /\ xfer.pc = "await_wallets"
    /\ LET root == RootOf(wallets[xfer.user])
           agents == AgentsOf(wallets[xfer.user])
           st == [xfer EXCEPT !.root = root, !.agents = agents, !.i = 1]
       IN xfer' = IF ~root.is_root
                  THEN [st EXCEPT !.pc = "done", !.msg = "No Root Wallet found."]
                  ELSE IF agents = <<>>
                  THEN [st EXCEPT !.pc = "done", !.msg = "No Agent Wallets found."]
                  ELSE IF ~root.key_ok
                  THEN [st EXCEPT !.pc = "done",
                                  !.msg = "Error decoding Root Wallet key."]
                  ELSE CollectLoop(st)
    /\ XferUnchanged

\* CollectBalanceReturn with the reserve test written balance < MIN_BALANCE
CollectBalanceReturn_ReserveInclusive(balance) ==
    /\ xfer.op = "collect"
    /\ xfer.pc = "await_balance"
    /\ LET agent == xfer.agents[xfer.i].agent_name
       IN xfer' = IF balance < MinBalance
                  THEN CollectLoop([xfer EXCEPT
                           !.lines = Append(@, Line(agent, "Insufficient balance",
                                                    balance, -1)),
                           !.i = @ + 1])
                  ELSE [xfer EXCEPT !.pc = "await_send", !.balance = balance,
                                    !.lamports = SweepLamports(balance)]
    /\ XferUnchanged

\* lines 113-127: the balance arrives (0.0 when get_sol_balance failed)
CollectBalanceReturn(balance) ==
    /\ xfer.op = "collect"
    /\ xfer.pc = "await_balance"
    /\ LET agent == xfer.agents[xfer.i].agent_name
       IN xfer' = IF balance <= MinBalance
                  THEN CollectLoop([xfer EXCEPT
                           !.lines = Append(@, Line(agent, "Insufficient balance",
                                                    balance, -1)),
                           !.i = @ + 1])
                  ELSE [xfer EXCEPT !.pc = "await_send", !.balance = balance,
                                    !.lamports = SweepLamports(balance)]
    /\ XferUnchanged

\* lines 126-132, then the next turn of the loop
CollectAfterSend(ok) ==
    LET agent == xfer.agents[xfer.i].agent_name
    IN CollectLoop([xfer EXCEPT
           !.lines = Append(@, Line(agent,
                                    IF ok THEN "Collected" ELSE "Transfer failed",
                                    xfer.balance, xfer.lamports)),
           !.sent = Append(@, Transfer(agent, "root", xfer.lamports)),
           !.i = @ + 1])

CollectSendReturn(ok) ==
    /\ xfer.op = "collect"
    /\ xfer.pc = "await_send"
    /\ xfer' = CollectAfterSend(ok)
    /\ XferUnchanged

(* withdraw_from_root *)
WithdrawCall(u, amount) ==
    /\ xfer.pc = "idle"
    /\ xfer' = [IdleXfer EXCEPT !.op = "withdraw", !.pc = "await_user_settings",
                                !.user = u, !.amount = amount]
    /\ XferUnchanged

\* lines 145-150
WithdrawSettingsReturn ==
    /\ xfer.op = "withdraw"
    /\ xfer.pc = "await_user_settings"
    /\ LET withdraw_addr == user_settings[xfer.user].withdraw_address
       IN xfer' = IF withdraw_addr = ""
                  THEN [xfer EXCEPT !.pc = "done", !.msg = "Withdraw address not set."]
                  ELSE [xfer EXCEPT !.pc = "await_wallets", !.addr = withdraw_addr]
    /\ XferUnchanged

\* lines 150-169: the root key is decoded at line 155, outside any try and
\* before the address is parsed at line 157
WithdrawWalletsReturn ==
    /\ xfer.op = "withdraw"
    /\ xfer.pc = "await_wallets"
    /\ LET root == RootOf(wallets[xfer.user])
           st == [xfer EXCEPT !.root = root]
       IN xfer' = IF ~root.is_root
                  THEN [st EXCEPT !.pc = "done", !.msg = "No root wallet found."]
                  ELSE IF ~root.key_ok
                  THEN [st EXCEPT !.pc = "raised"]
                  ELSE IF xfer.addr # "ADDR"
                  THEN [st EXCEPT !.pc = "done", !.msg = "Invalid withdraw address."]
                  ELSE [st EXCEPT !.pc = "await_send", !.lamports = xfer.amount]
    /\ XferUnchanged

\* lines 168-173
WithdrawSendReturn(ok) ==
    /\ xfer.op = "withdraw"
    /\ xfer.pc = "await_send"
    /\ xfer' = [xfer EXCEPT
            !.pc = "done",
            !.msg = IF ok THEN "Withdrawal from Root successful!"
                          ELSE "Withdrawal failed. Check logs.",
            !.sent = Append(@, Transfer("root", xfer.addr, xfer.lamports))]
    /\ XferUnchanged

\* the operation is over: the handler has the report, or the exception
XferDone ==
    /\ xfer.pc \in {"done", "raised"}
    /\ xfer' = IdleXfer
    /\ XferUnchanged

NextFunds ==
    \/ \E u \in Users : LoadCall(u, LoadAmount)
    \/ LoadWalletsReturn
    \/ \E ok \in BOOLEAN : LoadSendReturn(ok)
    \/ \E u \in Users : CollectCall(u)
    \/ CollectWalletsReturn
    \/ \E balance \in SweepBalances : CollectBalanceReturn(balance)
    \/ \E ok \in BOOLEAN : CollectSendReturn(ok)
    \/ \E u \in Users : WithdrawCall(u, LoadAmount)
    \/ WithdrawSettingsReturn
    \/ WithdrawWalletsReturn
    \/ \E ok \in BOOLEAN : WithdrawSendReturn(ok)
    \/ XferDone

InitFunds ==
    /\ active_trading = <<>>
    /\ agent_last_buy = <<>>
    /\ agent_settings = <<>>
    /\ user_settings \in [Users -> [token_address : {""}, withdraw_address : Addresses]]
    /\ wallets \in [Users -> WalletStores]
    /\ sup = [s \in Sup |-> NoSup]
    /\ ctrl = [c \in Ctrl |-> NoCtrl]
    /\ stop_requested = [u \in Users |-> FALSE]
    /\ q = IdleQuote
    /\ buy = IdleBuy
    /\ xfer = IdleXfer
    /\ swap = IdleSwap
    /\ sell = IdleSell
    /\ ledger = NoLedger

SpecFunds == InitFunds /\ [][NextFunds]_vars

(* --------------------------- specification ----------------------------- *)
Next ==
    \/ \E u \in Users : cmd_trading_on(u)
    \/ \E u \in Users : cmd_trading_off(u)
    \/ \E u \in Users, b \in BOOLEAN : ExternalSetActive(u, b)
    \/ \E s \in Sup : SupStep(s)
    \/ \E c \in Ctrl : CtrlStep(c)

Spec == Init /\ [][Next]_vars

\* every sleep and every network call of a controller returns
FairSpec == Spec /\ \A c \in Ctrl : WF_vars(CtrlStep(c))

(* ------------------ one /trading_on over a wallets table --------------- *)
\* wallets tables with a usable root wallet
AgentStores == {ws \in WalletStores : RootOf(ws) = RootWallet}

InitAgents ==
    /\ active_trading \in {<<>>, [u \in Users |-> TRUE]}
    /\ agent_last_buy = <<>>
    /\ agent_settings \in InitialAgentSettings
    /\ user_settings \in [Users -> [token_address : Tokens]]
    /\ wallets \in [Users -> AgentStores]
    /\ sup = [s \in Sup |-> NoSup]
    /\ ctrl = [c \in Ctrl |-> NoCtrl]
    /\ stop_requested = [u \in Users |-> FALSE]
    /\ q = IdleQuote
    /\ buy = IdleBuy
    /\ xfer = IdleXfer
    /\ swap = IdleSwap
    /\ sell = IdleSell
    /\ ledger = NoLedger

\* as Next, with /trading_on sent once
NextAgents ==
    \/ \E u \in Users : cmd_trading_on(u) /\ \A s \in Sup : sup[s].pc = "unborn"
    \/ \E u \in Users : cmd_trading_off(u)
    \/ \E u \in Users, b \in BOOLEAN : ExternalSetActive(u, b)
    \/ \E s \in Sup : SupStep(s)
    \/ \E c \in Ctrl : CtrlStep(c)

SpecAgents == InitAgents /\ [][NextAgents]_vars

\* every sleep and every awaited call of a task returns
FairAgents ==
    /\ SpecAgents
    /\ \A c \in Ctrl : WF_vars(CtrlStep(c))
    /\ \A s \in Sup : WF_vars(SupStep(s))

\* the fixed_rest_delay column is an INT: negative, zero and positive values
RestDelays == (0 - MaxRest)..MaxRest

\* the row of an agent, with any rest delay and any sell delay (both INT
\* columns), selling or not, with a fixed_buy or without
RestSettings ==
    {[k \in {AgentKey(u, "A") : u \in Users} |->
         [FundedSettings EXCEPT !.fixed_buy = fixed_buy, !.fixed_sell_delay = h,
                                !.fixed_rest_delay = d, !.sell_enabled = sell_enabled]] :
     fixed_buy \in {0, DustFloor}, h \in RestDelays, d \in RestDelays,
     sell_enabled \in BOOLEAN}

\* one configured agent, the flag set and a token address stored
InitRest ==
    /\ active_trading = [u \in Users |-> TRUE]
    /\ agent_last_buy = <<>>
    /\ agent_settings \in RestSettings
    /\ user_settings = [u \in Users |-> [token_address |-> "MINT"]]
    /\ wallets = [u \in Users |-> <<RootWallet, AgentWallet("A")>>]
    /\ sup = [s \in Sup |-> NoSup]
    /\ ctrl = [c \in Ctrl |-> NoCtrl]
    /\ stop_requested = [u \in Users |-> FALSE]
    /\ q = IdleQuote
    /\ buy = IdleBuy
    /\ xfer = IdleXfer
    /\ swap = IdleSwap
    /\ sell = IdleSell
    /\ ledger = NoLedger

SpecRest == InitRest /\ [][NextAgents]_vars

(* ------------- a controller and a sweep over one agent wallet ---------- *)
\* fixed_buy of 0.002 SOL, above the 0.001 SOL a sweep leaves behind, and a
\* wallet that holds 0.01 SOL
DrainBuy == 2000000
DrainFunds == 10000000

InitDrain ==
    /\ active_trading = [u \in Users |-> TRUE]
    /\ agent_last_buy = <<>>
    /\ agent_settings = [k \in {AgentKey(u, "A") : u \in Users} |->
                            [FundedSettings EXCEPT !.fixed_buy = DrainBuy]]
    /\ user_settings = [u \in Users |-> [token_address |-> "MINT"]]
    /\ wallets = [u \in Users |-> <<RootWallet, AgentWallet("A")>>]
    /\ sup = [s \in Sup |-> NoSup]
    /\ ctrl = [c \in Ctrl |-> NoCtrl]
    /\ stop_requested = [u \in Users |-> FALSE]
    /\ q = IdleQuote
    /\ buy = IdleBuy
    /\ xfer = IdleXfer
    /\ swap = IdleSwap
    /\ sell = IdleSell
    /\ ledger = [NoLedger EXCEPT !.bal = DrainFunds]

\* solana_integration.py lines 43-51: the RPC node answers the get_balance
\* request of line 56 with the lamports the account holds at that moment, or
\* the request fails and get_sol_balance will return 0.0
DrainBalanceRead(c) ==
    /\ ctrl[c].pc = "await_balance"
    /\ ledger.seen[c] = NotRead
    /\ \E lamports \in {ledger.bal, 0} :
          ledger' = [ledger EXCEPT !.seen[c] = lamports]
    /\ UNCHANGED <<active_trading, agent_last_buy, agent_settings, user_settings,
                   wallets, sup, ctrl, stop_requested, q, buy, xfer, swap, sell>>

\* trading.py lines 56-66: the response reaches the controller, which tests
\* it and calls buy_token_jupiter without awaiting in between
DrainBalanceReturn(c) ==
    /\ ctrl[c].pc = "await_balance"
    /\ ledger.seen[c] # NotRead
    /\ ctrl' = [ctrl EXCEPT ![c] = CtrlAfterBalance(c, ledger.seen[c])]
    /\ ledger' = [ledger EXCEPT !.seen[c] = NotRead]
    /\ UNCHANGED <<active_trading, agent_last_buy, agent_settings, user_settings,
                   wallets, sup, stop_requested, q, buy, xfer, swap, sell>>

\* load_withdrawal.py lines 126-132: a transfer that was accepted moves the
\* lamports out of the agent's account.  The lamports a swap spends are left
\* out: the account is only ever lowered by the sweep
DrainSendReturn(ok) ==
    /\ xfer.op = "collect"
    /\ xfer.pc = "await_send"
    /\ xfer' = CollectAfterSend(ok)
    /\ ledger' = IF ok THEN [ledger EXCEPT !.bal = @ - xfer.lamports] ELSE ledger
    /\ UNCHANGED <<active_trading, agent_last_buy, agent_settings, user_settings,
                   wallets, sup, ctrl, stop_requested, q, buy, swap, sell>>

NextDrain ==
    \/ \E u \in Users : cmd_trading_on(u) /\ \A s \in Sup : sup[s].pc = "unborn"
    \/ \E s \in Sup : SupStep(s)
    \/ \E c \in Ctrl : CheckSettings(c)
    \/ \E c \in Ctrl : SettingsReturn(c)
    \/ \E c \in Ctrl : DrainBalanceRead(c)
    \/ \E c \in Ctrl : DrainBalanceReturn(c)
    \/ \E c \in Ctrl : BuyReturn(c)
    \/ \E c \in Ctrl : WakeHold(c)
    \/ \E c \in Ctrl : SellReturn(c)
    \/ \E c \in Ctrl : WakeLoop(c)
    \/ \E u \in Users : CollectCall(u)
    \/ CollectWalletsReturn
    \/ CollectBalanceReturn(ledger.bal)
    \/ \E ok \in BOOLEAN : DrainSendReturn(ok)
    \/ XferDone

SpecDrain == InitDrain /\ [][NextDrain]_vars

(* -------- two trading agents, and fund transfers at the same time ------ *)
\* both agents configured; an entry of another user is in the store already
InitShared ==
    /\ active_trading = [u \in Users |-> TRUE]
    /\ agent_last_buy = DictSet(<<>>, AgentKey("u2", "A"), 1)
    /\ agent_settings = [k \in {AgentKey(u, a) : u \in Users, a \in {"A", "B"}} |->
                            FundedSettings]
    /\ user_settings = [u \in Users |->
                           [token_address |-> "MINT", withdraw_address |-> "ADDR"]]
    /\ wallets = [u \in Users |-> <<RootWallet, AgentWallet("A"), AgentWallet("B")>>]
    /\ sup = [s \in Sup |-> NoSup]
    /\ ctrl = [c \in Ctrl |-> NoCtrl]
    /\ stop_requested = [u \in Users |-> FALSE]
    /\ q = IdleQuote
    /\ buy = IdleBuy
    /\ xfer = IdleXfer
    /\ swap = IdleSwap
    /\ sell = IdleSell
    /\ ledger = NoLedger

\* the controllers of one /trading_on, and the three fund operations with
\* an agent balance that is empty or worth sweeping
NextShared ==
    \/ \E u \in Users : cmd_trading_on(u) /\ \A s \in Sup : sup[s].pc = "unborn"
    \/ \E u \in Users, b \in BOOLEAN : ExternalSetActive(u, b)
    \/ \E s \in Sup : SupStep(s)
    \/ \E c \in Ctrl : CtrlStep(c)
    \/ \E u \in Users : LoadCall(u, LoadAmount)
    \/ LoadWalletsReturn
    \/ \E ok \in BOOLEAN : LoadSendReturn(ok)
    \/ \E u \in Users : CollectCall(u)
    \/ CollectWalletsReturn
    \/ \E balance \in {0, 2 * MinBalance} : CollectBalanceReturn(balance)
    \/ \E ok \in BOOLEAN : CollectSendReturn(ok)
    \/ \E u \in Users : WithdrawCall(u, LoadAmount)
    \/ WithdrawSettingsReturn
    \/ WithdrawWalletsReturn
    \/ \E ok \in BOOLEAN : WithdrawSendReturn(ok)
    \/ XferDone

SpecShared == InitShared /\ [][NextShared]_vars

(* ------------- the token address is changed while agents trade --------- *)
\* token addresses a user can store: those of Tokens and one more mint
NewTokens == Tokens \cup {"MINT2"}

\* database.py update_user_settings(user_id, "token_address", value)
update_token_address(u, value) ==
    /\ user_settings[u].token_address # value
    /\ user_settings' = [user_settings EXCEPT ![u].token_address = value]
    /\ UNCHANGED <<active_trading, agent_last_buy, agent_settings, wallets, sup,
                   ctrl, stop_requested, q, buy, xfer, swap, sell, ledger>>

NextToken ==
    \/ \E u \in Users : cmd_trading_on(u) /\ \A s \in Sup : sup[s].pc = "unborn"
    \/ \E u \in Users, b \in BOOLEAN : ExternalSetActive(u, b)
    \/ \E u \in Users, value \in NewTokens : update_token_address(u, value)
    \/ \E s \in Sup : SupStep(s)
    \/ \E c \in Ctrl : CtrlStep(c)

SpecToken == InitShared /\ [][NextToken]_vars

(* ------------------ an agent is deleted while it trades ---------------- *)
\* the wallets table has a row of agent a for user u
HasAgent(u, a) == \E k \in 1..Len(wallets[u]) : wallets[u][k].agent_name = a

\* d without the key k
DictDel(d, k) == [j \in (DOMAIN d) \ {k} |-> d[j]]

\* database.py lines 240-243, the first statement of delete_agent:
\* DELETE FROM wallets WHERE user_id = $1 AND agent_name = $2
DeleteWalletRow(u, a) ==
    /\ HasAgent(u, a)
    /\ wallets' = [wallets EXCEPT ![u] =
                      SelectSeq(wallets[u], LAMBDA w : w.agent_name # a)]
    /\ UNCHANGED <<active_trading, agent_last_buy, agent_settings, user_settings,
                   sup, ctrl, stop_requested, q, buy, xfer, swap, sell, ledger>>

\* database.py lines 244-246, the second statement of delete_agent, which an
\* await separates from the first:
\* DELETE FROM agent_settings WHERE user_id = $1 AND agent_name = $2
DeleteSettingsRow(u, a) ==
    /\ ~HasAgent(u, a)
    /\ AgentKey(u, a) \in DOMAIN agent_settings
    /\ agent_settings' = DictDel(agent_settings, AgentKey(u, a))
    /\ UNCHANGED <<active_trading, agent_last_buy, user_settings, wallets,
                   sup, ctrl, stop_requested, q, buy, xfer, swap, sell, ledger>>

NextDelete ==
    \/ \E u \in Users : cmd_trading_on(u) /\ \A s \in Sup : sup[s].pc = "unborn"
    \/ \E u \in Users, b \in BOOLEAN : ExternalSetActive(u, b)
    \/ \E u \in Users : DeleteWalletRow(u, "A")
    \/ \E u \in Users : DeleteSettingsRow(u, "A")
    \/ \E s \in Sup : SupStep(s)
    \/ \E c \in Ctrl : CtrlStep(c)

SpecDelete == InitShared /\ [][NextDelete]_vars

(* ------------------------------ properties ----------------------------- *)
KeyOf(c) == AgentKey(ctrl[c].user, ctrl[c].agent)
Moved(c) == ctrl'[c].pc # ctrl[c].pc

\* C1: a controller calls sell_token_jupiter only when the stored last-buy
\* amount of its (user, agent), read at that moment, is strictly positive, and
\* it passes exactly that amount; never with a zero or absent entry.
C1_SellOnlyPositiveStored ==
    [][\A c \in Ctrl :
          (Moved(c) /\ ctrl'[c].pc = "await_sell") =>
              /\ KeyOf(c) \in DOMAIN agent_last_buy
              /\ agent_last_buy[KeyOf(c)] > 0
              /\ ctrl'[c].stored_amount = agent_last_buy[KeyOf(c)]]_vars

C1_Witness ==
    \E c \in Ctrl : ctrl[c].pc = "await_sell" /\ ctrl[c].stored_amount > 0

C3_StopOnlyAtCheckSettings ==
    [][/\ (active_trading' # active_trading) => (ctrl' = ctrl)
       /\ \A c \in Ctrl :
             /\ (Moved(c) /\ ctrl'[c].pc = "exited")
                   => (ctrl[c].pc = "CheckSettings" /\ ~IsActive(ctrl[c].user))
             /\ (Moved(c) /\ ctrl[c].pc = "sleep_hold")
                   => ctrl'[c].pc \in {"await_sell", "sleep_rest"}
             /\ (Moved(c) /\ ctrl[c].pc = "await_sell")
                   => ctrl'[c].pc = "sleep_rest"
             /\ (Moved(c) /\ ctrl[c].pc \in {"sleep_rest", "sleep_settings",
                                            "sleep_balance", "sleep_buyfail"})
                   => ctrl'[c].pc = "CheckSettings"
             /\ (Moved(c) /\ ctrl[c].pc = "await_buy")
                   => ctrl'[c].pc \in {"sleep_buyfail", "sleep_hold", "sleep_rest"}
             /\ (Moved(c) /\ ctrl[c].pc = "await_balance")
                   => ctrl'[c].pc \in {"sleep_balance", "await_buy"}]_vars

C3_Witness ==
    \E c \in Ctrl : ctrl[c].pc = "await_sell" /\ ~IsActive(ctrl[c].user)

\* C4: once the flag of a user is false for good every controller of that user
\* eventually is gone; an iteration (and so a buy) starts only on a true flag;
\* and a controller ends only at CheckSettings on a false flag.
C4_ExitsOnlyOnFalseFlag ==
    /\ \A u \in Users :
          (<>[](~IsActive(u))) =>
              <>[](\A c \in Ctrl : ctrl[c].user = u => ~Live(c))
    /\ [][\A c \in Ctrl :
             /\ (ctrl[c].pc = "CheckSettings" /\ ctrl'[c].pc = "await_settings")
                   => IsActive(ctrl[c].user)
             /\ (Live(c) /\ ctrl'[c].pc \notin LivePcs)
                   => (ctrl[c].pc = "CheckSettings" /\ ~IsActive(ctrl[c].user))]_vars

\* C5: when run_user_trading spawns a controller after /trading_on, the flag of
\* the user is true, so the controller's first loop test lets it in.
C5_FlagTrueAtSpawn ==
    [][\A c \in Ctrl :
          (ctrl[c].pc = "unborn" /\ ctrl'[c].pc # "unborn")
              => DictGet(active_trading', ctrl'[c].user, FALSE)]_vars

\* C6: /trading_off leaves the flag of the user false.
C6_OffClearsFlag ==
    [][\A u \in Users :
          (~stop_requested[u] /\ stop_requested'[u])
              => ~DictGet(active_trading', u, FALSE)]_vars

\* C7: no two live controllers share a (user, agent): each last-buy entry has
\* a single writer.
C7_SingleWriter ==
    \A c1, c2 \in Ctrl :
        (c1 # c2 /\ Live(c1) /\ Live(c2)) => KeyOf(c1) # KeyOf(c2)

\* C8: no failure of a sub-call ends a controller: none ever dies of an
\* exception.
C8_NoControllerDies ==
    \A c \in Ctrl : ctrl[c].pc # "crashed"

\* C9: jupiter_get_quote never issues more than max_retries requests, and a
\* call in which every request met a 429 or a transport failure issues exactly
\* max_retries requests and returns the empty result.
C9_RetryBudget ==
    /\ q.requests <= q.max_retries
    /\ (q.pc = "done" /\ q.only_retryable)
          => (q.requests = q.max_retries /\ q.result = "empty")

C9_Witness ==
    /\ q.pc = "done"
    /\ q.only_retryable
    /\ q.max_retries = DefaultMaxRetries
    /\ q.requests = DefaultMaxRetries

\* C10: after a 429 response the call sleeps for the Retry-After seconds (5
\* without the header), and the retry that follows uses up one attempt.
C10_RateLimitDelay ==
    [][/\ (q.pc = "request" /\ q' # q /\ q'.resp.status = 429)
            => /\ q'.pc = "sleep"
               /\ q'.resp.retry_after.kind = "int"
                     => q'.delay = q'.resp.retry_after.secs
               /\ q'.resp.retry_after.kind = "none"
                     => q'.delay = 5
       /\ (q.pc = "sleep" /\ q' # q) => q'.attempt = q.attempt + 1]_vars

\* C11: a 5xx response is retried with exponential backoff (2^attempt seconds
\* before the next attempt), and a call whose last response was a 5xx returns
\* the empty result only once its attempt budget is used up.
C11_ServerErrorRetried ==
    [][(q.pc = "request" /\ q' # q /\ q'.resp.status >= 500)
          => /\ q'.pc = "sleep"
             /\ q'.delay = 2 ^ q.attempt
             /\ q'.attempt = q.attempt]_vars

\* C12: a call returns a quote only for a response whose route plan is
\* non-empty, and a response without one, or with an empty one, ends the call
\* at once with the empty result.
C12_QuoteHasRoutes ==
    /\ (q.pc = "done" /\ q.result = "quote") => q.resp.route = "nonempty"
    /\ (q.pc # "idle" /\ q.resp.kind = "http" /\ q.resp.status = 200
            /\ q.resp.json_ok /\ q.resp.route # "nonempty")
          => (q.pc = "done" /\ q.result = "empty")

\* C13: a buy amount that converts to fewer than 100,000 lamports makes
\* buy_token_jupiter return None with no quote and no swap request sent, and
\* an amount that converts to exactly 100,000 lamports is let through to the
\* quote request.  (Amounts are in half lamports: below 200,000 converts to
\* below 100,000; 200,000 and 200,001 convert to exactly 100,000.)
C13_DustFloor ==
    /\ (buy.pc # "idle" /\ buy.amount < 200000)
          => /\ buy.pc = "done"
             /\ buy.result = Absent
             /\ buy.quotes = 0
             /\ buy.swaps = 0
    /\ (buy.pc # "idle" /\ buy.amount \in {200000, 200001})
          => buy.quotes = 1

C13_Witness ==
    /\ buy.pc = "done"
    /\ buy.amount = 199999
    /\ buy.lamports = 99999
    /\ buy.result = Absent

\* C14: when load_all_agents or collect_agents_to_root has run over a list of
\* agent wallets (root wallet present and usable), whichever submissions
\* failed, it ends with one report line per agent, in wallet order.
C14_OneLinePerAgent ==
    (/\ xfer.op \in {"load", "collect"}
     /\ xfer.pc \in {"done", "raised"}
     /\ xfer.root.is_root
     /\ xfer.root.key_ok
     /\ xfer.agents # <<>>)
        => /\ xfer.pc = "done"
           /\ Len(xfer.lines) = Len(xfer.agents)
           /\ \A k \in 1..Len(xfer.lines) :
                  xfer.lines[k].agent = xfer.agents[k].agent_name

\* C15: no fund-transfer operation ends by raising, whatever the wallets
\* table holds, and a finished load_all_agents has a "Failed" line for every
\* agent whose key does not decode.
C15_NoEscape ==
    /\ xfer.pc # "raised"
    /\ (xfer.op = "load" /\ xfer.pc = "done" /\ xfer.msg = "")
          => \A k \in 1..Len(xfer.agents) :
                 ~xfer.agents[k].key_ok
                     => (k <= Len(xfer.lines) /\ xfer.lines[k].outcome = "Failed")

\* the transfers collect_agents_to_root has submitted from the wallet of agent
TransfersFrom(agent) ==
    {k \in 1..Len(xfer.sent) : xfer.sent[k].src = agent}

\* a line of the sweep for which a transfer was submitted
Submitted(line) == line.outcome \in {"Collected", "Transfer failed"}

C17_WithdrawFailsFast ==
    (xfer.op = "withdraw" /\ xfer.pc \in {"done", "raised"}) =>
        LET withdraw_addr == user_settings[xfer.user].withdraw_address
        IN IF withdraw_addr # "ADDR"
           THEN /\ xfer.pc = "done"
                /\ xfer.msg \in {"Withdraw address not set.",
                                 "Invalid withdraw address.",
                                 "No root wallet found."}
                /\ xfer.sent = <<>>
           ELSE (xfer.root.is_root /\ xfer.root.key_ok)
                    => xfer.sent = <<Transfer("root", withdraw_addr, xfer.amount)>>

\* C18: for a user whose token_address is empty, run_user_trading never gets
\* to read the wallets and no controller is ever spawned, however many agent
\* wallets the user has.
C18_NoTokenNoControllers ==
    \A u \in Users :
        user_settings[u].token_address = "" =>
            /\ \A s \in Sup : sup[s].pc \in {"unborn", "await_user_settings", "done"}
            /\ \A c \in Ctrl : ctrl[c].pc = "unborn"

C18_Witness ==
    \E s \in Sup, u \in Users :
        /\ sup[s].pc = "done"
        /\ user_settings[u].token_address = ""
        /\ Len(AgentsOf(wallets[u])) = 2
        /\ IsActive(u)

\* agents A (fixed_buy > 0) and B (fixed_buy = 0) under user u, a token set
ScenarioAB(u) ==
    /\ wallets[u] = <<RootWallet, AgentWallet("A"), AgentWallet("B")>>
    /\ user_settings[u].token_address # ""
    /\ SettingsRow(u, "A").fixed_buy > 0
    /\ SettingsRow(u, "B").fixed_buy = 0

\* C19: with agents A (funded, fixed_buy > 0) and B (fixed_buy = 0) and the
\* flag true, every step of B's controller keeps it in the CheckSettings
\* retry loop (flag test, settings read, 5s sleep), so it never asks for a
\* balance or a buy; a step of one controller changes no other controller;
\* and when trading is started, the flag is true throughout and A's balance is
\* never found short, A's controller gets to its buy.
C19_TwoAgents ==
    /\ [][\A u \in Users : (ScenarioAB(u) /\ IsActive(u)) =>
             \A c \in Ctrl :
                 /\ (ctrl[c].user = u /\ ctrl[c].agent = "B" /\ Moved(c))
                       => ctrl'[c].pc \in {"CheckSettings", "await_settings",
                                           "sleep_settings"}
                 /\ Moved(c) => \A d \in Ctrl \ {c} : ctrl'[d] = ctrl[d]]_vars
    /\ \A u \in Users :
           ( /\ ScenarioAB(u)
             /\ <>(\E s \in Sup : sup[s].pc # "unborn")
             /\ [](IsActive(u) /\ \A c \in Ctrl : ctrl[c].pc # "sleep_balance"))
               => <>(\E c \in Ctrl : /\ ctrl[c].user = u
                                     /\ ctrl[c].agent = "A"
                                     /\ ctrl[c].pc = "await_buy")

\* C20: the steps of one controller come one after the other in the order of
\* the loop body: the hold starts only when the buy has returned, the sell
\* only when the hold is over, the rest only after the sell (or after the hold
\* or the buy when there is nothing to sell), and the next CheckSettings only
\* when a sleep of the running iteration is over; a step advances one
\* controller and leaves every other controller where it is.
C20_IterationOrder ==
    [][\A c \in Ctrl : Moved(c) =>
          /\ ctrl'[c].pc = "await_settings" => ctrl[c].pc = "CheckSettings"
          /\ ctrl'[c].pc = "await_balance" => ctrl[c].pc = "await_settings"
          /\ ctrl'[c].pc = "await_buy" => ctrl[c].pc = "await_balance"
          /\ ctrl'[c].pc = "sleep_hold" => ctrl[c].pc = "await_buy"
          /\ ctrl'[c].pc = "await_sell" => ctrl[c].pc = "sleep_hold"
          /\ ctrl'[c].pc = "sleep_rest"
                => \/ ctrl[c].pc = "await_sell"
                   \/ ctrl[c].pc = "sleep_hold" /\ DictGet(agent_last_buy, KeyOf(c), 0) <= 0
                   \/ ctrl[c].pc = "await_buy" /\ ~ctrl[c].sell_enabled
          /\ ctrl'[c].pc = "CheckSettings"
                => ctrl[c].pc \in {"unborn", "sleep_rest", "sleep_settings",
                                   "sleep_balance", "sleep_buyfail"}
          /\ \A d \in Ctrl \ {c} : ~Moved(d)]_vars

\* the only controller rests after a buy, a hold and a sell that failed
C20_Witness ==
    \E c \in Ctrl :
        /\ ctrl[c].pc = "sleep_rest"
        /\ SettingsRow(ctrl[c].user, ctrl[c].agent).sell_enabled
        /\ DictGet(agent_last_buy, KeyOf(c), 0) > 0
        /\ \A d \in Ctrl \ {c} : ctrl[d].pc = "unborn"

\* C21: when buy_token_jupiter returns None the controller leaves the store as
\* it was, sleeps one second, and its next step is the loop condition: no hold,
\* sell or rest follows the failed buy, and that next step leaves the store alone
C21_FailedBuySkipsIteration ==
    [][\A c \in Ctrl :
          /\ (ctrl[c].pc = "await_buy" /\ Moved(c) /\ ctrl'[c].ret = Absent)
                => /\ ctrl'[c].pc = "sleep_buyfail"
                   /\ ctrl'[c].dur = 1
                   /\ agent_last_buy' = agent_last_buy
          /\ (ctrl[c].pc = "sleep_buyfail" /\ Moved(c))
                => /\ ctrl'[c].pc = "CheckSettings"
                   /\ agent_last_buy' = agent_last_buy
          /\ (Moved(c) /\ ctrl'[c].pc = "sleep_buyfail")
                => ctrl[c].pc = "await_buy" /\ ctrl'[c].ret = Absent]_vars

\* a buy has failed while an amount bought earlier is still stored
C21_Witness ==
    \E c \in Ctrl :
        /\ ctrl[c].pc = "sleep_buyfail"
        /\ ctrl[c].ret = Absent
        /\ DictGet(agent_last_buy, KeyOf(c), 0) > 0

\* C22: when sell_token_jupiter returns, the controller goes to the rest sleep;
\* a signature sets the stored amount of its (user, agent) to zero and touches
\* no other entry, None leaves the whole store as it was
C22_SellOutcome ==
    [][\A c \in Ctrl : (ctrl[c].pc = "await_sell" /\ Moved(c)) =>
          /\ ctrl'[c].pc = "sleep_rest"
          /\ ctrl'[c].ret \in {0, Absent}
          /\ ctrl'[c].ret = 0
                => /\ KeyOf(c) \in DOMAIN agent_last_buy'
                   /\ agent_last_buy'[KeyOf(c)] = 0
                   /\ \A k \in DOMAIN agent_last_buy \ {KeyOf(c)} :
                         k \in DOMAIN agent_last_buy' /\ agent_last_buy'[k] = agent_last_buy[k]
          /\ ctrl'[c].ret = Absent
                => /\ agent_last_buy' = agent_last_buy
                   /\ DictGet(agent_last_buy', KeyOf(c), 0) > 0]_vars

\* a sell has failed and the amount it was to sell is still stored
C22_Witness ==
    \E c \in Ctrl :
        /\ ctrl[c].pc = "sleep_rest"
        /\ ctrl[c].ret = Absent
        /\ DictGet(agent_last_buy, KeyOf(c), 0) > 0

\* C23: in the state right after a successful buy the stored amount of that
\* (user, agent) is the out_amount the buy returned, whatever was stored before,
\* and the buy step starts no sell of the amount left over
C23_BuyOverwrites ==
    [][\A c \in Ctrl :
          (ctrl[c].pc = "await_buy" /\ Moved(c) /\ ctrl'[c].ret # Absent) =>
              /\ ctrl'[c].ret >= 0
              /\ KeyOf(c) \in DOMAIN agent_last_buy'
              /\ agent_last_buy'[KeyOf(c)] = ctrl'[c].ret
              /\ ctrl'[c].pc \in {"sleep_hold", "sleep_rest"}
              /\ \A k \in DOMAIN agent_last_buy \ {KeyOf(c)} :
                    k \in DOMAIN agent_last_buy' /\ agent_last_buy'[k] = agent_last_buy[k]]_vars

\* the only controller has just bought with an out_amount of 0, the store
\* holds that 0 for its key and the hold sleep is under way
C23_Witness ==
    \E c \in Ctrl :
        /\ ctrl[c].pc = "sleep_hold"
        /\ ctrl[c].ret = 0
        /\ KeyOf(c) \in DOMAIN agent_last_buy
        /\ agent_last_buy[KeyOf(c)] = 0
        /\ \A d \in Ctrl \ {c} : ctrl[d].pc = "unborn"

\* C24: the balance is read only with fixed_buy > 0; when it comes back the
\* controller starts a buy exactly when the balance read is at least fixed_buy
\* (an equal balance buys), and otherwise, a failed read being a balance of 0,
\* sleeps five seconds and goes back to the loop condition; a buy starts no
\* other way
C24_BuyIffFunded ==
    [][\A c \in Ctrl :
          /\ (ctrl[c].pc = "await_balance" /\ Moved(c))
                => /\ ctrl[c].fixed_buy > 0
                   /\ ctrl'[c].pc = "await_buy" <=> ctrl'[c].ret >= ctrl[c].fixed_buy
                   /\ ctrl'[c].pc # "await_buy"
                         => ctrl'[c].pc = "sleep_balance" /\ ctrl'[c].dur = 5
                   /\ agent_last_buy' = agent_last_buy
          /\ (ctrl[c].pc = "sleep_balance" /\ Moved(c))
                => ctrl'[c].pc = "CheckSettings" /\ agent_last_buy' = agent_last_buy
          /\ (Moved(c) /\ ctrl'[c].pc = "await_buy")
                => ctrl[c].pc = "await_balance"]_vars

\* a buy has been started on a balance exactly equal to fixed_buy
C24_Witness ==
    \E c \in Ctrl :
        /\ ctrl[c].pc = "await_buy"
        /\ ctrl[c].fixed_buy > 0
        /\ ctrl[c].ret = ctrl[c].fixed_buy

\* C25: the sell_enabled a controller holds while it buys is the one of the
\* settings row it read in this iteration; when it is false a successful buy is
\* followed directly by the rest sleep, with the bought amount stored, and the
\* rest sleep is followed by the loop condition with the store left alone, so
\* the iteration has no hold sleep and no sell
C25_SellDisabledSkipsHold ==
    [][\A c \in Ctrl :
          /\ (ctrl[c].pc = "await_settings" /\ Moved(c) /\ ctrl'[c].pc = "await_balance")
                => ctrl'[c].sell_enabled = SettingsRow(ctrl[c].user, ctrl[c].agent).sell_enabled
          /\ (ctrl[c].pc = "await_balance" /\ Moved(c) /\ ctrl'[c].pc = "await_buy")
                => ctrl'[c].sell_enabled = ctrl[c].sell_enabled
          /\ (ctrl[c].pc = "await_buy" /\ Moved(c) /\ ctrl'[c].ret # Absent
                /\ ~ctrl[c].sell_enabled)
                => /\ ctrl'[c].pc = "sleep_rest"
                   /\ DictGet(agent_last_buy', KeyOf(c), Absent) = ctrl'[c].ret
          /\ (ctrl[c].pc = "sleep_rest" /\ Moved(c))
                => ctrl'[c].pc = "CheckSettings" /\ agent_last_buy' = agent_last_buy]_vars

\* with sell disabled in its settings row, a controller rests after a buy and
\* the amount bought is in the store
C25_Witness ==
    \E c \in Ctrl :
        /\ ctrl[c].pc = "sleep_rest"
        /\ ~SettingsRow(ctrl[c].user, ctrl[c].agent).sell_enabled
        /\ ctrl[c].ret = 1
        /\ DictGet(agent_last_buy, KeyOf(c), 0) = 1

\* C26: whatever integer the fixed_rest_delay of the agent's settings row is,
\* a rest sleep lasts that many seconds when it is at least 1 and one second
\* when it is zero or negative
C26_RestSleep ==
    \A c \in Ctrl : ctrl[c].pc = "sleep_rest" =>
        LET d == SettingsRow(ctrl[c].user, ctrl[c].agent).fixed_rest_delay
        IN ctrl[c].dur = IF d >= 1 THEN d ELSE 1

\* a controller rests one second on a negative fixed_rest_delay
C26_Witness ==
    \E c \in Ctrl :
        /\ ctrl[c].pc = "sleep_rest"
        /\ SettingsRow(ctrl[c].user, ctrl[c].agent).fixed_rest_delay < 0
        /\ ctrl[c].dur = 1

\* C27: a supervisor holding a non-empty token address walks the user's wallet
\* list from the first row on. Each controller it starts is for the first row
\* at or after its position that is an agent wallet with a decodable key, and is
\* bound to the supervisor's user, that row's agent name and the token address;
\* the rows passed over are the root wallet or agents whose key does not decode;
\* one controller starts per step and a one-second sleep follows each; the
\* supervisor ends only when no decodable agent row is left
C27_OnePerAgentInOrder ==
    [][\A s \in Sup : sup[s].pc \in {"await_wallets", "sleep_stagger"} /\ sup'[s] # sup[s] =>
          LET ws == IF sup[s].pc = "await_wallets" THEN wallets[sup[s].user] ELSE sup[s].ws
              i == IF sup[s].pc = "await_wallets" THEN 1 ELSE sup[s].i
              born == {c \in Ctrl : ctrl[c].pc = "unborn" /\ ctrl'[c].pc # "unborn"}
              j == sup'[s].i - 1
          IN /\ sup[s].token # ""
             /\ sup'[s].pc \in {"sleep_stagger", "done"}
             /\ sup'[s].pc = "sleep_stagger"
                   => /\ j \in i..Len(ws)
                      /\ ws[j].is_agent /\ ws[j].key_ok /\ ~ws[j].is_root
                      /\ \A k \in i..(j - 1) : ~ws[k].is_agent \/ ~ws[k].key_ok
                      /\ Cardinality(born) = 1
                      /\ \A c \in born :
                            /\ ctrl'[c].pc = "CheckSettings"
                            /\ ctrl'[c].user = sup[s].user
                            /\ ctrl'[c].agent = ws[j].agent_name
                            /\ ctrl'[c].token = sup[s].token
                      /\ sup'[s].ws = ws
                      /\ sup'[s].dur = 1
             /\ sup'[s].pc = "done"
                   => /\ born = {}
                      /\ \A k \in i..Len(ws) : ~ws[k].is_agent \/ ~ws[k].key_ok]_vars

\* the supervisor has passed the root wallet and an agent whose key does not
\* decode, and has started the controller of the agent after it
C27_Witness ==
    \E s \in Sup, c \in Ctrl :
        /\ sup[s].pc = "sleep_stagger"
        /\ sup[s].i = 4
        /\ ~sup[s].ws[2].key_ok
        /\ ctrl[c].pc = "CheckSettings"
        /\ ctrl[c].agent = sup[s].ws[3].agent_name
        /\ \A d \in Ctrl \ {c} : ctrl[d].pc = "unborn"

\* C28: a response whose status is neither 200 nor 429 ends the call at once
\* with the empty result: no sleep is taken and no further request is sent.
C28_OtherStatusImmediate ==
    [][(q.pc = "request" /\ q' # q /\ q'.resp.kind = "http"
            /\ q'.resp.status \notin {200, 429})
          => /\ q'.pc = "done"
             /\ q'.result = "empty"
             /\ q'.delay = 0
             /\ q'.requests = q.requests]_vars

\* C29: a request is the k-th retried attempt when k earlier requests of the
\* call were retried, whatever the reason (k = requests - 1 = attempt).  A
\* transport-level failure of it is followed by a sleep of exactly 2^k seconds,
\* the last attempt of the budget included, and the end of the sleep adds one
\* to the attempt count; with max_retries = 5 the sleeps are 1, 2, 4, 8, 16.
C29_TransportBackoff ==
    [][/\ (q.pc = "request" /\ q' # q /\ q'.resp.kind = "transport")
             => /\ q.attempt = q.requests - 1
                /\ q.attempt < q.max_retries
                /\ q'.pc = "sleep"
                /\ q'.delay = 2 ^ q.attempt
                /\ q'.attempt = q.attempt
                /\ q'.requests = q.requests
       /\ (q.pc = "sleep" /\ q' # q /\ q.resp.kind = "transport")
             => /\ q'.attempt = q.attempt + 1
                /\ q'.pc = IF q'.attempt < q.max_retries THEN "request" ELSE "done"
                /\ q'.pc = "done" => q'.result = "empty"]_vars

\* the fifth and last attempt of a call with max_retries = 5, every attempt of
\* which failed or was rate limited, has failed at transport level: a sleep of
\* 16 seconds is under way
C29_Witness ==
    /\ q.pc = "sleep"
    /\ q.resp.kind = "transport"
    /\ q.only_retryable
    /\ q.max_retries = 5
    /\ q.attempt = 4
    /\ q.delay = 16

\* C30: jupiter_swap always returns.  It returns a signature only when the
\* POST produced a transaction that decoded, had or was given a recent
\* blockhash, was signed, and was sent without error; it returns None when the
\* request failed, the body had no swapTransaction, the decoding failed, the
\* blockhash request raised, the signing failed or the sending failed.
\* buy_token_jupiter and sell_token_jupiter return None when the quote was empty
\* and when jupiter_swap returned None.
C30_SwapResult ==
    /\ swap.pc \in {"idle", "await_post", "await_anchor", "await_send", "done"}
    /\ (swap.pc = "done" /\ swap.result)
          => /\ swap.post.kind = "tx"
             /\ swap.post.blockhash \/ swap.anchor = "ok"
             /\ swap.post.signable
             /\ swap.send = "ok"
    /\ (swap.pc = "done" /\ (\/ swap.post.kind # "tx"
                             \/ swap.anchor = "raise"
                             \/ ~swap.post.signable
                             \/ swap.send = "raise"))
          => ~swap.result
    /\ swap.pc = "await_send" => swap.post.kind = "tx" /\ swap.post.signable
    /\ (buy.pc = "done" /\ (buy.quote.empty \/ ~swap.result)) => buy.result = Absent
    /\ (sell.pc = "done" /\ (sell.quote.empty \/ ~swap.result)) => ~sell.result
    /\ (buy.pc = "done" /\ buy.result # Absent) => swap.pc = "done" /\ swap.caller = "buy"
    /\ (sell.pc = "done" /\ sell.result) => swap.pc = "done" /\ swap.caller = "sell"

\* a sell has returned None because the blockhash its transaction lacked could
\* not be fetched
C30_Witness ==
    /\ sell.pc = "done"
    /\ ~sell.result
    /\ ~sell.quote.empty
    /\ swap.pc = "done"
    /\ swap.post.kind = "tx"
    /\ swap.anchor = "raise"

(* C31: when the user has no root wallet, distribute, sweep and withdraw
   are reported no-ops: the call returns a message, submits no transaction
   and raises nothing; distribute and sweep do the same when the user has
   no agent wallets. *)
C31_MissingWalletsNoOp ==
    xfer.pc # "idle" =>
        LET ws == wallets[xfer.user]
            no_root == ~RootOf(ws).is_root
            no_agents == AgentsOf(ws) = <<>>
        IN  no_root \/ (xfer.op \in {"load", "collect"} /\ no_agents) =>
                /\ xfer.sent = <<>>
                /\ xfer.pc \in {"await_wallets", "await_user_settings", "done"}
                /\ xfer.pc = "done" => xfer.msg # ""

\* distribute has returned its message for a user who has agents but no root
C31_Witness ==
    /\ xfer.op = "load"
    /\ xfer.pc = "done"
    /\ ~RootOf(wallets[xfer.user]).is_root
    /\ AgentsOf(wallets[xfer.user]) # <<>>
    /\ xfer.msg = "Missing root wallet or agent wallets."
    /\ xfer.sent = <<>>

(* C32: whenever buy_token_jupiter reports success, the output amount it
   returns is a positive integer; a quote whose outAmount is missing or is
   not a number never produces a successful buy with amount 0. *)
C32_SuccessHasPositiveAmount ==
    buy.pc = "done" /\ buy.result # Absent =>
        /\ buy.result > 0
        /\ buy.quote.ok

(* C33: every amount a controller passes to sell_token_jupiter equals the
   output amount its own buy stored in the same iteration, also when the
   start command was issued more than once: when the hold is over, a
   positive amount bought is sold, and what is sold is what was bought. *)
C33_SellsOwnBuy ==
    [][\A c \in Ctrl :
          Moved(c) /\ ctrl[c].pc = "sleep_hold" =>
              /\ ctrl[c].ret > 0 => ctrl'[c].pc = "await_sell"
              /\ ctrl'[c].pc = "await_sell" => ctrl'[c].stored_amount = ctrl[c].ret]_vars

(* C34: whenever a controller invokes buy for a wallet, the wallet's balance
   at the moment of the invocation is at least fixed_buy, also when a sweep
   runs concurrently with the controller. *)
C34_FundedAtBuy ==
    [][\A c \in Ctrl :
          Moved(c) /\ ctrl'[c].pc = "await_buy" =>
              ledger.bal >= ctrl'[c].fixed_buy]_vars

(* C35: once the flag of a user is false, every controller of that user
   that is live at that moment eventually exits, even if the flag is set
   again before the controller next reaches CheckSettings; and a later
   enable never spawns a controller for an agent while an old controller of
   that agent is still live. *)
C35_StoppedControllersExit ==
    /\ \A c \in Ctrl : (Live(c) /\ ~IsActive(ctrl[c].user)) ~> ~Live(c)
    /\ [][\A c, d \in Ctrl :
             (ctrl[d].pc = "unborn" /\ ctrl'[d].pc # "unborn" /\ Live(c))
                 => KeyOf(c) # AgentKey(ctrl'[d].user, ctrl'[d].agent)]_vars

(* C36: a controller never spins: between two evaluations of the loop
   condition (fixed_buy <= 0, insufficient balance, failed buy, completed
   cycle) it has slept at least once for at least one second, for every
   integer setting of the delays: the loop condition is reached only from a
   sleep of at least one second, or from the spawn. *)
C36_NeverSpins ==
    [][\A c \in Ctrl :
          Moved(c) /\ ctrl'[c].pc = "CheckSettings" /\ ctrl[c].pc # "unborn" =>
              /\ ctrl[c].pc \in {"sleep_settings", "sleep_balance",
                                 "sleep_buyfail", "sleep_rest"}
              /\ ctrl[c].dur >= 1]_vars

\* a controller whose rest delay is 0 and whose sell delay is not positive
\* sleeps one second before the next loop test
C36_Witness ==
    \E c \in Ctrl :
        /\ ctrl[c].pc = "sleep_rest"
        /\ SettingsRow(ctrl[c].user, ctrl[c].agent).fixed_rest_delay = 0
        /\ SettingsRow(ctrl[c].user, ctrl[c].agent).fixed_sell_delay <= 0
        /\ ctrl[c].dur = 1

(* C37: the controller of (user, agent) writes only the last-buy entry of
   its own (user, agent): a step of a controller leaves every other entry
   of the store, and the flag, as they were; a step of distribute, sweep or
   withdraw changes neither the store nor the flag. *)
C37_OwnEntryOnly ==
    [][/\ \A c \in Ctrl :
             ctrl'[c] # ctrl[c] =>
                 /\ active_trading' = active_trading
                 /\ \A k \in (DOMAIN agent_last_buy) \cup (DOMAIN agent_last_buy') :
                        k # KeyOf(c) =>
                            /\ k \in DOMAIN agent_last_buy
                            /\ k \in DOMAIN agent_last_buy'
                            /\ agent_last_buy'[k] = agent_last_buy[k]
       /\ xfer' # xfer =>
             /\ agent_last_buy' = agent_last_buy
             /\ active_trading' = active_trading]_vars

\* the controller of B has stored an amount while A's entry and the other
\* user's entry exist, and a fund operation is under way
C37_Witness ==
    \E c \in Ctrl :
        /\ ctrl[c].agent = "B"
        /\ ctrl[c].pc = "sleep_hold"
        /\ ctrl[c].ret > 0
        /\ agent_last_buy[KeyOf(c)] = ctrl[c].ret
        /\ AgentKey(ctrl[c].user, "A") \in DOMAIN agent_last_buy
        /\ agent_last_buy[AgentKey(ctrl[c].user, "A")] = 0
        /\ agent_last_buy[AgentKey("u2", "A")] = 1
        /\ xfer.pc = "await_send"

(* C38: every buy and every sell of a controller uses the token address
   that run_user_trading read when it spawned the controller: the
   controller is born with the token its supervisor holds, keeps it in
   every step while it lives, and a change of the stored token address,
   clearing included, moves no controller and does not keep one from
   passing its loop test. *)
C38_TokenFixedAtSpawn ==
    [][/\ \A c \in Ctrl :
             /\ (ctrl[c].pc = "unborn" /\ ctrl'[c].pc # "unborn") =>
                    \E s \in Sup : /\ sup'[s] # sup[s]
                                   /\ sup[s].token # ""
                                   /\ ctrl'[c].token = sup[s].token
             /\ (Live(c) /\ ctrl'[c].pc \in LivePcs) => ctrl'[c].token = ctrl[c].token
             /\ (Moved(c) /\ ctrl[c].pc = "CheckSettings" /\ IsActive(ctrl[c].user))
                    => ctrl'[c].pc = "await_settings"
       /\ user_settings' # user_settings => ctrl' = ctrl]_vars

\* a controller awaits its buy of MINT, and another its sell, after the
\* user's token address was cleared
C38_Witness ==
    \E c, d \in Ctrl :
        /\ ctrl[c].pc = "await_buy"
        /\ ctrl[d].pc = "await_sell"
        /\ ctrl[c].token = "MINT"
        /\ ctrl[d].token = "MINT"
        /\ user_settings[ctrl[c].user].token_address = ""

\* delete_agent has removed both rows of the agent; the settings row is
\* missing, or is the default row a later read has put back
Deleted(u, a) == ~HasAgent(u, a) /\ SettingsRow(u, a) = DefaultAgentSettings

(* C39: deleting an agent while its controller runs does not terminate the
   controller: from its next loop test on, the controller passes the test
   while the flag is true, loads the default settings (the read puts the
   default row back), sleeps 5 s and tests again, without a further buy,
   and leaves this loop only by the test finding the flag false. *)
C39_DeletedAgentIdles ==
    [][\A c \in Ctrl :
          (Moved(c) /\ Live(c) /\ Deleted(ctrl[c].user, ctrl[c].agent)) =>
              /\ ctrl[c].pc = "CheckSettings" =>
                     ctrl'[c].pc = IF IsActive(ctrl[c].user) THEN "await_settings"
                                                              ELSE "exited"
              /\ ctrl[c].pc = "await_settings" =>
                     /\ ctrl'[c].pc = "sleep_settings"
                     /\ ctrl'[c].dur = PollSleep
                     /\ KeyOf(c) \in DOMAIN agent_settings'
                     /\ agent_settings'[KeyOf(c)] = DefaultAgentSettings
              /\ ctrl[c].pc = "sleep_settings" => ctrl'[c].pc = "CheckSettings"]_vars

====
